---- MODULE Spec2Model ----
(***************************************************************************)
(* Portfolio Construction & Financial Projection Engine.                   *)
(*                                                                         *)
(* State machines sharing this module:                                     *)
(*   SpecDB      the Asset Universe Store (api/investment_database.py):    *)
(*               one writer connection running __init__ /                  *)
(*               refresh_database and a reader on a second connection;     *)
(*   SpecAssets  get_available_assets read on a second connection;         *)
(*   SpecPx      _generate_price_series and the derived metrics;           *)
(*   SpecMt      _calculate_performance_metrics, the row of one symbol;    *)
(*   SpecOpt     PortfolioOptimizer (portfolio_optimizer.py): asset        *)
(*               filter, returns/covariance estimate, SLSQP solve,         *)
(*               efficient frontier;                                       *)
(*   SpecTg      _calculate_target_return;                                 *)
(*   SpecAl      optimize_portfolio, the allocation dict it returns;       *)
(*   SpecRet     FinancialCalculator.calculate_retirement_needs;           *)
(*   SpecMC, SpecMCReturn                                                  *)
(*               FinancialCalculator.monte_carlo_retirement_simulation;    *)
(*   SpecDebt, SpecDebtRun                                                 *)
(*               FinancialCalculator.calculate_debt_payoff;                *)
(*   SpecVal     validate_user_input (backend/app/utils/validators.py);    *)
(*   SpecPlan    POST /api/financial-plan, the portfolio part.             *)
(* Each specification drives its own variables and leaves the others at    *)
(* their parked value.                                                     *)
(***************************************************************************)
EXTENDS Integers, Sequences, FiniteSets, TLC

VARIABLES
    \* ---- Asset Universe Store ----
    today,        \* datetime.now() as a day number
    gen,          \* number of generate_historical_data runs so far
    histC,        \* historical_data as committed (what other connections read)
    metricsC,     \* performance_metrics as committed
    histW,        \* historical_data as seen by the writer connection
    metricsW,     \* performance_metrics as seen by the writer connection
    dbOp,         \* operation the writer is in: "none" | "init" | "refresh" | "request"
    dbPc,         \* position inside that operation
    dbIdx,        \* loop index over instruments
    startDate,    \* start_date of the running generate_historical_data
    endDate,      \* end_date of the running generate_historical_data
    oldHist,      \* committed historical_data when refresh_database was entered
    readerSeen,   \* last series a reader on another connection fetched
    assetsSeen,   \* last result of get_available_assets on another connection
    \* ---- PortfolioOptimizer ----
    rows,         \* price rows each symbol has inside the lookback window
    cons,         \* OptimizationConstraints of the request
    profile,      \* InvestorProfile of the request
    scipyOK,      \* whether `from scipy.optimize import minimize` succeeded
    request,      \* "max_sharpe" | "min_variance" | "target_return" | "frontier"
    numPortfolios,\* num_portfolios of generate_efficient_frontier
    oPc,          \* position inside optimize_portfolio
    mode,         \* optimization_type of the running optimize_portfolio
    prob,         \* the problem handed to minimize(): symbols, estimate, bounds, target
    iter,         \* major iterations the solver has run
    outcome,      \* how the last optimize_portfolio ended
    fPc,          \* position inside generate_efficient_frontier
    fIdx,         \* index into target_returns
    fTargets,     \* target_returns of the sweep
    fPoints,      \* efficient_portfolios collected so far
    fCalls,       \* per swept target: the return constraint its optimization ran under
    \* ---- FinancialCalculator.calculate_retirement_needs ----
    plan,         \* RetirementPlan
    income,       \* current_annual_income
    rPc,          \* "call" | "done"
    analysis,     \* the returned dict, or the exception raised
    \* ---- FinancialCalculator.monte_carlo_retirement_simulation ----
    mcIn,         \* the plan, income and num_simulations of the call
    mcPc,         \* "accumulate" | "withdraw" | "trial_end" | "done" | "returned"
    trial,        \* trials started so far
    year,         \* loop variable of the running phase
    balance,      \* balance of the running trial
    required,     \* required_annual_income of the running trial
    ends,         \* balance at the end of each withdrawal year of the running trial
    success_count,
    final_balances,
    trials,       \* per finished trial: its year-end balances and whether it counted
    mcResult,     \* the dict monte_carlo_retirement_simulation returned
    \* ---- one instrument's price series and its metrics ----
    pxPc,         \* "generate" | "store" | "metrics" | "done"
    prices,       \* list built by _generate_price_series
    dates,        \* calendar year of each generated date
    closes,       \* close_price column as stored: round(close_price, 2)
    nowYear,      \* datetime.now().year when the metrics are computed
    ytd_return,   \* result of _calculate_ytd_return
    max_drawdown, \* result of _calculate_max_drawdown
    \* ---- PortfolioOptimizer._calculate_target_return ----
    tgProfile,    \* the InvestorProfile passed in
    tgPc,         \* "call" | "done"
    tgReturn,     \* the returned target, in basis points
    \* ---- validators.validate_user_input ----
    user_data,    \* the dict passed in: the fields it holds and their values
    vPc,          \* "call" | "done"
    validation,   \* the returned dict, or the exception raised
    \* ---- InvestmentDatabase._calculate_performance_metrics, one symbol ----
    mtLen,        \* len(data): price rows stored for the symbol
    mtPc,         \* "call" | "done"
    mtRow,        \* the performance_metrics row of the symbol after the call
    \* ---- PortfolioOptimizer.optimize_portfolio, lines 175-201 on one solver result ----
    alWeights,    \* optimal_weights = result.x, in 1/AllocUnit
    alPc,         \* "loop" | "return" | "done"
    alIdx,        \* i of `for i, symbol in enumerate(symbols)`
    alAllocation, \* allocation: the entries added so far, weight in ten-thousandths
    alTotal,      \* total_assets of the returned dict
    \* ---- FinancialCalculator.calculate_debt_payoff ----
    debts,        \* the list of debts passed in
    extra_payment,\* extra_payment
    strategy,     \* "avalanche", or anything else for snowball
    dPc,          \* "call" | "loop" | "return" | "done"
    sorted_debts, \* the debts in payoff order
    remaining_debts,\* copies of the debts not paid off yet, in payoff order
    month,        \* months simulated so far
    extraLog,     \* the last simulated month: who was the priority debt and what it got
    settled,      \* the copies removed from remaining_debts, with the balance they left with
    payoff,       \* the returned dict
    \* ---- flask_backend/app.py: POST /api/financial-plan ----
    user_profile, \* data['user_profile']: the fields the portfolio part reads
    planPc,       \* "portfolio" | "respond" | "done"
    portfolio_analysis,\* portfolio_analysis of the handler
    response      \* the JSON body returned

dbVars == <<today, gen, histC, metricsC, histW, metricsW, dbOp, dbPc, dbIdx,
            startDate, endDate, oldHist, readerSeen, assetsSeen>>

optVars == <<rows, cons, profile, scipyOK, request, numPortfolios, oPc, mode, prob,
             iter, outcome, fPc, fIdx, fTargets, fPoints, fCalls>>

retVars == <<plan, income, rPc, analysis>>

mcVars == <<mcIn, mcPc, trial, year, balance, required, ends, success_count,
            final_balances, trials, mcResult>>

pxVars == <<pxPc, prices, dates, closes, nowYear, ytd_return, max_drawdown>>

tgVars == <<tgProfile, tgPc, tgReturn>>

valVars == <<user_data, vPc, validation>>

mtVars == <<mtLen, mtPc, mtRow>>

alVars == <<alWeights, alPc, alIdx, alAllocation, alTotal>>

debtVars == <<debts, extra_payment, strategy, dPc, sorted_debts, remaining_debts, month, extraLog, settled, payoff>>

planVars == <<user_profile, planPc, portfolio_analysis, response>>

vars == <<dbVars, optVars, retVars, mcVars, pxVars, tgVars, valVars, mtVars, alVars, debtVars, planVars>>

notDb == <<optVars, retVars, mcVars, pxVars, tgVars, valVars, mtVars, alVars, debtVars, planVars>>
notOpt == <<dbVars, retVars, mcVars, pxVars, tgVars, valVars, mtVars, alVars, debtVars, planVars>>
notRet == <<dbVars, optVars, mcVars, pxVars, tgVars, valVars, mtVars, alVars, debtVars, planVars>>
notMc == <<dbVars, optVars, retVars, pxVars, tgVars, valVars, mtVars, alVars, debtVars, planVars>>
notPx == <<dbVars, optVars, retVars, mcVars, tgVars, valVars, mtVars, alVars, debtVars, planVars>>
notTg == <<dbVars, optVars, retVars, mcVars, pxVars, valVars, mtVars, alVars, debtVars, planVars>>
notVal == <<dbVars, optVars, retVars, mcVars, pxVars, tgVars, mtVars, alVars, debtVars, planVars>>
notMt == <<dbVars, optVars, retVars, mcVars, pxVars, tgVars, valVars, alVars, debtVars, planVars>>
notAl == <<dbVars, optVars, retVars, mcVars, pxVars, tgVars, valVars, mtVars, debtVars, planVars>>
notDebt == <<dbVars, optVars, retVars, mcVars, pxVars, tgVars, valVars, mtVars, alVars, planVars>>
notPlan == <<dbVars, optVars, retVars, mcVars, pxVars, tgVars, valVars, mtVars, alVars, debtVars>>

(***************************************************************************)
(* Bounds of the model                                                     *)
(***************************************************************************)
MaxDay == 2        \* days the clock may advance
MaxGen == 3        \* generate_historical_data runs, the seeding one included
DaysPerYear == 1   \* calendar days standing for one year of history
WeightUnit == 10   \* portfolio weights are multiples of 1/WeightUnit
MaxIter == 2       \* iteration limit of the solver
SeriesDays == 4    \* num_days of a generated price series
MaxAge == 125      \* largest age a profile is given

(***************************************************************************)
(* Instruments (a sample of the seeded table, in table order)              *)
(***************************************************************************)
Instruments ==
    << [symbol |-> "FAB",      market |-> "UAE", risk_level |-> 6, is_sharia_compliant |-> TRUE],
       [symbol |-> "VTSAX",    market |-> "US",  risk_level |-> 7, is_sharia_compliant |-> FALSE],
       [symbol |-> "GLD",      market |-> "US",  risk_level |-> 4, is_sharia_compliant |-> TRUE] >>

NumInstruments == Len(Instruments)
Symbols == {Instruments[i].symbol : i \in 1..NumInstruments}

(***************************************************************************)
(* Asset Universe Store                                                    *)
(***************************************************************************)
ConstructorYears == 5
RefreshYears == 7

Dates == (0 - RefreshYears * DaysPerYear)..MaxDay

\* A symbol's series: date -> generation that wrote the row, 0 for no row.
NoRows == [d \in Dates |-> 0]
EmptyTable == [s \in Symbols |-> NoRows]
NoMetrics == [s \in Symbols |-> [present |-> FALSE, from |-> NoRows]]

RowCount(series) == Cardinality({d \in Dates : series[d] # 0})

\* len(data) < 252 of _calculate_performance_metrics, at the model's day scale
MetricsMinRows == (252 * DaysPerYear + 364) \div 365

\* pd.date_range(start_date, end_date, freq='D') written for one symbol with
\* INSERT OR IGNORE under UNIQUE(symbol, date): a stored row wins.
InsertOrIgnore(series, lo, hi, g) ==
    [d \in Dates |-> IF d >= lo /\ d <= hi /\ series[d] = 0 THEN g ELSE series[d]]

\* the complete series one generate_historical_data run of `years` years
\* ending on day e writes into an empty table
FullSeries(years, e, g) ==
    [d \in Dates |-> IF d >= e - years * DaysPerYear /\ d <= e THEN g ELSE 0]

\* the value of assetsSeen.cons before any query
NoQuery == [risk_level_range |-> <<1, 10>>, sharia_compliant_only |-> FALSE,
            market_preference |-> ""]

\* store after the first construction: tables created, instruments seeded,
\* one generation of ConstructorYears years, metrics computed
DbInit ==
    /\ today = 0
    /\ gen = 1
    /\ histC = [s \in Symbols |-> FullSeries(ConstructorYears, 0, 1)]
    /\ metricsC = [s \in Symbols |->
                     [present |-> TRUE, from |-> FullSeries(ConstructorYears, 0, 1)]]
    /\ histW = histC
    /\ metricsW = metricsC
    /\ dbOp = "none"
    /\ dbPc = "idle"
    /\ dbIdx = 0
    /\ startDate = 0
    /\ endDate = 0
    /\ oldHist = histC
    /\ readerSeen = [symbol |-> "FAB", rows |-> histC["FAB"], old |-> histC["FAB"],
                     during |-> "none"]
    /\ assetsSeen = [asked |-> FALSE, cons |-> NoQuery, rows |-> << >>]

Tick ==
    /\ today < MaxDay
    /\ today' = today + 1
    /\ UNCHANGED <<gen, histC, metricsC, histW, metricsW, dbOp, dbPc, dbIdx,
                   startDate, endDate, oldHist, readerSeen, assetsSeen, notDb>>

\* entry of generate_historical_data(years): end_date = now, the instrument list
EnterGenerate(years) ==
    /\ gen' = gen + 1
    /\ endDate' = today
    /\ startDate' = today - years * DaysPerYear
    /\ dbIdx' = 1
    /\ dbPc' = "insert"

\* InvestmentDatabase(db_path) on a populated file: create_tables finds the
\* tables, populate_instruments replaces each instrument by itself and
\* commits, generate_historical_data() starts
ConstructStart ==
    /\ dbOp = "none"
    /\ gen < MaxGen
    /\ dbOp' = "init"
    /\ EnterGenerate(ConstructorYears)
    /\ UNCHANGED <<today, histC, metricsC, histW, metricsW, oldHist, readerSeen, assetsSeen, notDb>>

\* analyze_portfolio_and_finances up to `test_db = InvestmentDatabase()`
\* (main.py line 109): the request opens the store through the constructor, so
\* the same seeding and generation run on the request's connection. What the
\* request does after the constructor returns (get_data_summary, close,
\* optimize_portfolio) reads only.
AnalyzeRequestStart ==
    /\ dbOp = "none"
    /\ gen < MaxGen
    /\ dbOp' = "request"
    /\ EnterGenerate(ConstructorYears)
    /\ UNCHANGED <<today, histC, metricsC, histW, metricsW, oldHist, readerSeen, assetsSeen, notDb>>

\* refresh_database: the two DELETE statements, not yet committed
RefreshDelete ==
    /\ dbOp = "none"
    /\ gen < MaxGen
    /\ dbOp' = "refresh"
    /\ dbPc' = "delete_commit"
    /\ oldHist' = histC
    /\ histW' = EmptyTable
    /\ metricsW' = NoMetrics
    /\ UNCHANGED <<today, gen, histC, metricsC, dbIdx, startDate, endDate, readerSeen, assetsSeen, notDb>>

\* refresh_database: commit of the deletes, then generate_historical_data(years)
RefreshDeleteCommit ==
    /\ dbPc = "delete_commit"
    /\ histC' = histW
    /\ metricsC' = metricsW
    /\ EnterGenerate(RefreshYears)
    /\ UNCHANGED <<today, histW, metricsW, dbOp, oldHist, readerSeen, assetsSeen, notDb>>

\* generate_historical_data: all rows of one instrument
InsertSymbol ==
    /\ dbPc = "insert"
    /\ LET s == Instruments[dbIdx].symbol IN
         histW' = [histW EXCEPT ![s] = InsertOrIgnore(histW[s], startDate, endDate, gen)]
    /\ IF dbIdx < NumInstruments
          THEN dbIdx' = dbIdx + 1 /\ dbPc' = dbPc
          ELSE dbIdx' = 0 /\ dbPc' = "insert_commit"
    /\ UNCHANGED <<today, gen, histC, metricsC, metricsW, dbOp, startDate, endDate,
                   oldHist, readerSeen, assetsSeen, notDb>>

\* generate_historical_data: self.conn.commit(), then _calculate_performance_metrics
InsertCommit ==
    /\ dbPc = "insert_commit"
    /\ histC' = histW
    /\ metricsC' = metricsW
    /\ dbPc' = "metrics"
    /\ dbIdx' = 1
    /\ UNCHANGED <<today, gen, histW, metricsW, dbOp, startDate, endDate, oldHist,
                   readerSeen, assetsSeen, notDb>>

\* _calculate_performance_metrics: one instrument
MetricsSymbol ==
    /\ dbPc = "metrics"
    /\ LET s == Instruments[dbIdx].symbol IN
         metricsW' = IF RowCount(histW[s]) < MetricsMinRows
                        THEN metricsW
                        ELSE [metricsW EXCEPT ![s] = [present |-> TRUE, from |-> histW[s]]]
    /\ IF dbIdx < NumInstruments
          THEN dbIdx' = dbIdx + 1 /\ dbPc' = dbPc
          ELSE dbIdx' = 0 /\ dbPc' = "metrics_commit"
    /\ UNCHANGED <<today, gen, histC, metricsC, histW, dbOp, startDate, endDate,
                   oldHist, readerSeen, assetsSeen, notDb>>

\* _calculate_performance_metrics: self.conn.commit(); the operation returns
\* (refresh_database ends with the read-only _verify_data_quality)
MetricsCommit ==
    /\ dbPc = "metrics_commit"
    /\ histC' = histW
    /\ metricsC' = metricsW
    /\ dbOp' = "none"
    /\ dbPc' = "idle"
    /\ UNCHANGED <<today, gen, histW, metricsW, dbIdx, startDate, endDate, oldHist,
                   readerSeen, assetsSeen, notDb>>

\* get_available_assets: WHERE risk_level BETWEEN ? AND ? [AND is_sharia_compliant = 1]
\* [AND market = ?]; an empty market_preference is falsy and adds no condition
PassesFilter(inst, c) ==
    /\ inst.risk_level >= c.risk_level_range[1]
    /\ inst.risk_level <= c.risk_level_range[2]
    /\ (c.sharia_compliant_only => inst.is_sharia_compliant)
    /\ (c.market_preference # "" => inst.market = c.market_preference)

RECURSIVE FilterFrom(_, _)
FilterFrom(i, c) ==
    IF i > NumInstruments THEN << >>
    ELSE IF PassesFilter(Instruments[i], c)
         THEN <<Instruments[i].symbol>> \o FilterFrom(i + 1, c)
         ELSE FilterFrom(i + 1, c)

get_available_assets(c) == FilterFrom(1, c)

\* the rows `instruments i LEFT JOIN performance_metrics p ON i.symbol =
\* p.symbol` yields for one instrument: one per metrics row of its symbol
\* (symbol is the primary key of performance_metrics, so at most one), and one
\* with NULL metrics when there is none
JoinRowsInner(inst, m) ==
    IF m[inst.symbol].present THEN <<[symbol |-> inst.symbol, has_metrics |-> TRUE]>>
    ELSE << >>
JoinRows(inst, m) ==
    IF m[inst.symbol].present THEN <<[symbol |-> inst.symbol, has_metrics |-> TRUE]>>
    ELSE <<[symbol |-> inst.symbol, has_metrics |-> FALSE]>>

\* the DataFrame get_available_assets returns against the metrics table m
RECURSIVE AssetRowsFrom(_, _, _)
AssetRowsFrom(i, c, m) ==
    IF i > NumInstruments THEN << >>
    ELSE IF PassesFilter(Instruments[i], c)
         THEN JoinRows(Instruments[i], m) \o AssetRowsFrom(i + 1, c, m)
         ELSE AssetRowsFrom(i + 1, c, m)

\* constraint sets a caller of get_available_assets may pass
AssetQueryChoices ==
    [risk_level_range : {<<1, 10>>, <<4, 6>>, <<7, 7>>},
     sharia_compliant_only : BOOLEAN,
     market_preference : {"", "US", "UAE"}]

\* get_available_assets(constraints) on the optimizer's connection: it sees
\* the committed tables
AssetsRead ==
    /\ \E c \in AssetQueryChoices :
         assetsSeen' = [asked |-> TRUE, cons |-> c, rows |-> AssetRowsFrom(1, c, metricsC)]
    /\ UNCHANGED <<today, gen, histC, metricsC, histW, metricsW, dbOp, dbPc, dbIdx,
                   startDate, endDate, oldHist, readerSeen, notDb>>

\* get_historical_data(symbol) on another connection: the committed rows
ReaderRead ==
    /\ \E s \in Symbols :
         readerSeen' = [symbol |-> s, rows |-> histC[s], old |-> oldHist[s],
                        during |-> dbOp]
    /\ UNCHANGED <<today, gen, histC, metricsC, histW, metricsW, dbOp, dbPc, dbIdx,
                   startDate, endDate, oldHist, assetsSeen, notDb>>

DbNext ==
    \/ Tick
    \/ ConstructStart
    \/ AnalyzeRequestStart
    \/ RefreshDelete
    \/ RefreshDeleteCommit
    \/ InsertSymbol
    \/ InsertCommit
    \/ MetricsSymbol
    \/ MetricsCommit
    \/ ReaderRead

\* the writer's operations on one day, with get_available_assets running on
\* another connection
AssetsNext ==
    \/ ConstructStart
    \/ AnalyzeRequestStart
    \/ RefreshDelete
    \/ RefreshDeleteCommit
    \/ InsertSymbol
    \/ InsertCommit
    \/ MetricsSymbol
    \/ MetricsCommit
    \/ AssetsRead


(***************************************************************************)
(* Floats: NaN or a finite scaled integer                                  *)
(***************************************************************************)
NaN == [nan |-> TRUE, v |-> 0]
Fin(x) == [nan |-> FALSE, v |-> x]
NumAdd(a, b) == IF a.nan \/ b.nan THEN NaN ELSE Fin(a.v + b.v)
NumMul(a, b) == IF a.nan \/ b.nan THEN NaN ELSE Fin(a.v * b.v)

(***************************************************************************)
(* PortfolioOptimizer                                                      *)
(***************************************************************************)
MinRows == 30

\* the three failures optimize_portfolio raises itself, and the dependency check
ErrNoScipy == [kind |-> "ValueError", msg |-> "scipy is required for portfolio optimization"]
ErrDiversification ==
    [kind |-> "ValueError", msg |-> "Insufficient assets for diversification requirement"]
ErrInsufficientData == [kind |-> "ValueError", msg |-> "Insufficient data for optimization"]
ErrNotConverged == [kind |-> "ValueError", msg |-> "Optimization failed to converge"]
\* np.dot of a length-n weight vector with a length-m estimate, m # n
ErrShape == [kind |-> "ValueError", msg |-> "shapes not aligned"]

NoWeights == << >>
NoOutcome == [status |-> "none", error |-> [kind |-> "", msg |-> ""], weights |-> NoWeights,
              expected_return |-> NaN, variance |-> NaN, volatility |-> NaN,
              sharpe_ratio |-> "none", allocation |-> << >>, total_assets |-> 0]
Raised(e) == [NoOutcome EXCEPT !.status = "raised", !.error = e]

\* np.mean of a symbol's finite daily returns * 252, in basis points
MeanEstimate(s) == CASE s = "FAB" -> 700 [] s = "VTSAX" -> 1100 [] OTHER -> 500

\* data['returns'] = data['close_price'].pct_change().dropna(): the assignment
\* aligns on the frame's index, so the column keeps one entry per price row and
\* entry 0 is NaN again; .values has len(data) entries
ReturnsLen(k) == k
ReturnsLeadingNaN(k) == k >= 1

RECURSIVE KeepFrom(_, _, _)
KeepFrom(syms, i, r) ==
    IF i > Len(syms) THEN << >>
    ELSE IF r[syms[i]] < MinRows
         THEN KeepFrom(syms, i + 1, r)
         ELSE <<syms[i]>> \o KeepFrom(syms, i + 1, r)

\* the symbols whose series reach returns_data: `if len(data) < 30: continue`
Contributing(syms, r) == KeepFrom(syms, 1, r)

SeqMin(S) == CHOOSE x \in S : \A y \in S : x <= y
SeqMax(S) == CHOOSE x \in S : \A y \in S : x >= y

\* calculate_returns_covariance: raised, or the estimate. r[-min_length:] keeps
\* the leading NaN of every series whose length is min_length.
calculate_returns_covariance(syms, r) ==
    LET used == Contributing(syms, r)
        m == Len(used)
    IN IF m < 2
          THEN [raised |-> TRUE, used |-> used, mu |-> << >>]
          ELSE LET min_length == SeqMin({ReturnsLen(r[used[i]]) : i \in 1..m})
                   tainted(i) == /\ ReturnsLeadingNaN(r[used[i]])
                                 /\ ReturnsLen(r[used[i]]) = min_length
               IN [raised |-> FALSE, used |-> used,
                   mu |-> [i \in 1..m |-> IF tainted(i) THEN NaN
                                           ELSE Fin(MeanEstimate(used[i]))]]

\* np.cov(returns_matrix.T) * 252: an entry is NaN when either series holds a NaN;
\* finite entries are abstracted to a unit diagonal
CovEntry(mu, i, j) ==
    IF mu[i].nan \/ mu[j].nan THEN NaN ELSE IF i = j THEN Fin(1) ELSE Fin(0)

RECURSIVE SumNum(_, _, _)
SumNum(f, i, n) == IF i > n THEN Fin(0) ELSE NumAdd(f[i], SumNum(f, i + 1, n))

RECURSIVE SumInt(_, _, _)
SumInt(f, i, n) == IF i > n THEN 0 ELSE f[i] + SumInt(f, i + 1, n)

\* np.dot(weights, expected_returns), in basis points * WeightUnit
portfolio_return(w, mu) ==
    SumNum([i \in 1..Len(mu) |-> NumMul(Fin(w[i]), mu[i])], 1, Len(mu))

\* np.dot(weights.T, np.dot(cov_matrix, weights))
portfolio_variance(w, mu) ==
    LET n == Len(mu)
        row(i) == SumNum([j \in 1..n |-> NumMul(CovEntry(mu, i, j), Fin(w[j]))], 1, n)
    IN SumNum([i \in 1..n |-> NumMul(Fin(w[i]), row(i))], 1, n)

\* max(lo, min(hi, x))
ClampBelowOnly(x, lo, hi) == IF x < lo THEN lo ELSE x
Clamp(x, lo, hi) == IF x < lo THEN lo ELSE IF x > hi THEN hi ELSE x

\* _calculate_target_return, in basis points
\* (equity_allocation in percent; 0.10 and 0.04 as 10 and 4 bp per percent)
CalculateTargetReturn(p) ==
    LET equity_allocation == Clamp(120 - p.age, 30, 90)
        risk_adjustment == (p.risk_tolerance - 5) * 100
        target_return == equity_allocation * 10 + (100 - equity_allocation) * 4
                         + risk_adjustment
    IN Clamp(target_return, 300, 1500)

\* profiles _calculate_target_return is called with: every age up to MaxAge,
\* every risk_tolerance of the 1-10 scale
TargetProfiles == [age : 0..MaxAge, risk_tolerance : 1..10]

TgInit ==
    /\ tgProfile \in TargetProfiles
    /\ tgPc = "call"
    /\ tgReturn = 0

TgParked ==
    /\ tgProfile = [age |-> 0, risk_tolerance |-> 1]
    /\ tgPc = "idle"
    /\ tgReturn = 0

TargetReturnCall ==
    /\ tgPc = "call"
    /\ tgReturn' = CalculateTargetReturn(tgProfile)
    /\ tgPc' = "done"
    /\ UNCHANGED <<tgProfile, notTg>>

TgNext == TargetReturnCall

\* bounds = (min_weight, min(max_weight, max_single_asset)) per asset
LowerBound(c) == c.min_weight
UpperBoundMaxWeightOnly(c) == c.max_weight
UpperBound(c) == IF c.max_weight < c.max_single_asset THEN c.max_weight
                 ELSE c.max_single_asset

NoProb == [symbols |-> << >>, n |-> 0, mu |-> << >>, lo |-> 0, hi |-> 0,
           has_target |-> FALSE, target |-> 0]

\* points at which SLSQP may report success: inside the bounds, every equality
\* constraint met (a constraint whose value is NaN is never met). The objective
\* only selects among them.
SolverSuccessPoints(pr) ==
    {w \in [1..pr.n -> pr.lo..pr.hi] :
        /\ SumInt(w, 1, pr.n) = WeightUnit
        /\ pr.has_target =>
             LET ret == portfolio_return(w, pr.mu)
             IN ~ret.nan /\ ret.v = WeightUnit * pr.target}

\* np.sqrt(x): NaN for NaN and for a negative argument, else the root (floor)
NumSqrt(a) ==
    IF a.nan \/ a.v < 0 THEN NaN
    ELSE Fin(CHOOSE r \in 0..a.v : r * r <= a.v /\ (r + 1) * (r + 1) > a.v)

\* 0.02, the risk-free rate, in the unit of portfolio_return
RiskFree == 200 * WeightUnit

\* (portfolio_return_val - 0.02) / portfolio_volatility on numpy floats: what
\* kind of value the quotient is (a zero divisor gives inf, or NaN for 0/0)
SharpeKind(ret, vol) ==
    IF ret.nan \/ vol.nan THEN "nan"
    ELSE IF vol.v = 0 THEN (IF ret.v = RiskFree THEN "nan" ELSE "inf")
    ELSE "finite"

\* optimal_weights[i] > 0.001, for a weight counted in 1/unit
SignificantOrEqual(w, unit) == 1000 * w >= unit
Significant(w, unit) == 1000 * w > unit

\* lines 184-190: the keys of the allocation dict, in insertion order
RECURSIVE AllocationFrom(_, _, _, _)
AllocationFrom(symbols, w, i, unit) ==
    IF i > Len(symbols) THEN << >>
    ELSE IF Significant(w[i], unit)
         THEN <<symbols[i]>> \o AllocationFrom(symbols, w, i + 1, unit)
         ELSE AllocationFrom(symbols, w, i + 1, unit)

\* lines 177-201: the result built from result.x
PortfolioOf(pr, w) ==
    LET ret == portfolio_return(w, pr.mu)
        var == portfolio_variance(w, pr.mu)
        vol == NumSqrt(var)
        allocation == AllocationFrom(pr.symbols, w, 1, WeightUnit)
    IN [status |-> "returned", error |-> [kind |-> "", msg |-> ""], weights |-> w,
        expected_return |-> ret,
        variance |-> var,
        volatility |-> vol,
        sharpe_ratio |-> SharpeKind(ret, vol),
        allocation |-> allocation,
        total_assets |-> Len(allocation)]

\* optimize_portfolio up to the call of minimize(): dependency check, asset
\* filter, diversification check, estimate, bounds, target constraint, and the
\* first evaluation of the objective at x0
OptimizeEnter ==
    /\ oPc = "call"
    /\ LET assets == get_available_assets(cons)
           est == calculate_returns_covariance(assets, rows)
           targeted == mode \notin {"max_sharpe", "min_variance"}
           problem == [symbols |-> assets, n |-> Len(assets), mu |-> est.mu,
                       lo |-> LowerBound(cons), hi |-> UpperBound(cons),
                       has_target |-> targeted,
                       target |-> IF targeted THEN CalculateTargetReturn(profile) ELSE 0]
           fail(e, pr) == /\ outcome' = Raised(e)
                          /\ oPc' = "done"
                          /\ prob' = pr
       IN IF ~scipyOK THEN fail(ErrNoScipy, NoProb)
          ELSE IF Len(assets) < cons.min_diversification
                  THEN fail(ErrDiversification, NoProb)
          ELSE IF est.raised THEN fail(ErrInsufficientData, NoProb)
          ELSE IF Len(est.mu) # Len(assets) THEN fail(ErrShape, problem)
          ELSE /\ prob' = problem
               /\ outcome' = NoOutcome
               /\ oPc' = "solving"
    /\ iter' = 0
    /\ UNCHANGED <<rows, cons, profile, scipyOK, request, numPortfolios, mode,
                   fPc, fIdx, fTargets, fPoints, fCalls, notOpt>>

\* one major iteration of SLSQP that neither converges nor gives up
SolverIterate ==
    /\ oPc = "solving"
    /\ iter < MaxIter
    /\ iter' = iter + 1
    /\ UNCHANGED <<rows, cons, profile, scipyOK, request, numPortfolios, oPc, mode, prob,
                   outcome, fPc, fIdx, fTargets, fPoints, fCalls, notOpt>>

\* minimize() returns with result.success; optimize_portfolio builds its result
SolverConverge ==
    /\ oPc = "solving"
    /\ \E w \in SolverSuccessPoints(prob) : outcome' = PortfolioOf(prob, w)
    /\ oPc' = "done"
    /\ UNCHANGED <<rows, cons, profile, scipyOK, request, numPortfolios, mode, prob, iter,
                   fPc, fIdx, fTargets, fPoints, fCalls, notOpt>>

\* minimize() returns with success False (iteration limit reached, or an
\* earlier exit mode of the solver): `raise ValueError("Optimization failed to converge")`
SolverGiveUp ==
    /\ oPc = "solving"
    /\ outcome' = Raised(ErrNotConverged)
    /\ oPc' = "done"
    /\ UNCHANGED <<rows, cons, profile, scipyOK, request, numPortfolios, mode, prob, iter,
                   fPc, fIdx, fTargets, fPoints, fCalls, notOpt>>

\* np.linspace(min_return, max_return, num): NaN as soon as one estimate is NaN
Linspace(mu, num) ==
    LET fin == {mu[i].v : i \in 1..Len(mu)}
        lo == SeqMin(fin)
        hi == SeqMax(fin)
    IN [k \in 1..num |->
          IF \E i \in 1..Len(mu) : mu[i].nan THEN NaN
          ELSE IF num = 1 THEN Fin(lo)
          ELSE Fin(lo + ((hi - lo) * (k - 1)) \div (num - 1))]

\* generate_efficient_frontier up to the loop: filter, estimate (its ValueError
\* is not caught here), the sweep of target returns
FrontierEnter ==
    /\ fPc = "call"
    /\ LET assets == get_available_assets(cons)
           est == calculate_returns_covariance(assets, rows)
       IN IF est.raised
             THEN /\ fPc' = "raised"
                  /\ fTargets' = << >>
                  /\ fIdx' = 0
                  /\ oPc' = "idle"
             ELSE /\ fTargets' = Linspace(est.mu, numPortfolios)
                  /\ fIdx' = 1
                  /\ fPc' = "loop"
                  /\ oPc' = "call"
    /\ UNCHANGED <<rows, cons, profile, scipyOK, request, numPortfolios, mode, prob, iter,
                   outcome, fPoints, fCalls, notOpt>>

\* `for target_ret in target_returns`: the index of the target taken next
NextTargetSkipsOne(idx) == idx + 2
NextTarget(idx) == idx + 1

\* loop body after optimize_portfolio(investor_profile, temp_constraints,
\* 'target_return') came back: append the point, or `except: continue`
FrontierCollect ==
    /\ fPc = "loop"
    /\ oPc = "done"
    /\ fCalls' = Append(fCalls, [target_ret |-> fTargets[fIdx],
                                 n |-> prob.n,
                                 has_target |-> prob.has_target,
                                 constraint_target |-> prob.target,
                                 outcome |-> outcome.status])
    /\ fPoints' = IF outcome.status = "returned"
                     THEN Append(fPoints, [target_return |-> fTargets[fIdx],
                                           expected_return |-> outcome.expected_return,
                                           variance |-> outcome.variance,
                                           call |-> fIdx])
                     ELSE fPoints
    /\ IF fIdx < Len(fTargets)
          THEN fIdx' = NextTarget(fIdx) /\ fPc' = fPc /\ oPc' = "call"
          ELSE fIdx' = fIdx /\ fPc' = "done" /\ oPc' = "idle"
    /\ UNCHANGED <<rows, cons, profile, scipyOK, request, numPortfolios, mode, prob, iter,
                   outcome, fTargets, notOpt>>

RowChoices == {MinRows - 1, MinRows, MinRows + 1}

ConsChoices ==
    [min_weight : {0, 1},
     max_weight : {4, WeightUnit},
     max_single_asset : {3, 5},
     min_diversification : {2, 3},
     sharia_compliant_only : BOOLEAN,
     market_preference : {"", "US"},
     risk_level_range : {<<1, 10>>}]

ProfileChoices == {[age |-> 30, risk_tolerance |-> 8], [age |-> 60, risk_tolerance |-> 5]}

OptInit ==
    /\ rows \in [Symbols -> RowChoices]
    /\ cons \in ConsChoices
    /\ profile \in ProfileChoices
    /\ scipyOK \in BOOLEAN
    /\ request \in {"max_sharpe", "min_variance", "target_return", "frontier"}
    /\ numPortfolios \in {1, 3}
    /\ (request # "frontier" => numPortfolios = 1)
    /\ mode = IF request = "frontier" THEN "target_return" ELSE request
    /\ oPc = IF request = "frontier" THEN "idle" ELSE "call"
    /\ fPc = IF request = "frontier" THEN "call" ELSE "idle"
    /\ prob = NoProb
    /\ iter = 0
    /\ outcome = NoOutcome
    /\ fIdx = 0
    /\ fTargets = << >>
    /\ fPoints = << >>
    /\ fCalls = << >>

OptParked ==
    /\ rows = [s \in Symbols |-> MinRows]
    /\ cons = [min_weight |-> 0, max_weight |-> WeightUnit, max_single_asset |-> 3,
               min_diversification |-> 5, sharia_compliant_only |-> FALSE,
               market_preference |-> "", risk_level_range |-> <<1, 10>>]
    /\ profile = [age |-> 30, risk_tolerance |-> 5]
    /\ scipyOK = TRUE
    /\ request = "none"
    /\ numPortfolios = 1
    /\ mode = "max_sharpe"
    /\ oPc = "idle"
    /\ fPc = "idle"
    /\ prob = NoProb
    /\ iter = 0
    /\ outcome = NoOutcome
    /\ fIdx = 0
    /\ fTargets = << >>
    /\ fPoints = << >>
    /\ fCalls = << >>

DbParked ==
    /\ DbInit

OptNext ==
    \/ OptimizeEnter
    \/ SolverIterate
    \/ SolverConverge
    \/ SolverGiveUp
    \/ FrontierEnter
    \/ FrontierCollect


(***************************************************************************)
(* FinancialCalculator.calculate_retirement_needs                          *)
(* Money is counted in thousandths of a currency unit, rates and growth    *)
(* factors in 1/RateScale.                                                 *)
(***************************************************************************)
RateScale == 10000
MoneyPerCent == 10      \* thousandths in one hundredth: round(x, 2) keeps hundredths

\* (base / RateScale) ** n for n >= 0, as a factor in 1/RateScale
RECURSIVE Pow(_, _)
Pow(base, n) == IF n = 0 THEN RateScale ELSE (Pow(base, n - 1) * base) \div RateScale

Max(a, b) == IF a >= b THEN a ELSE b

\* round(x, 2): nearest hundredth, a tie to the even hundredth
Round2(x) ==
    LET q == x \div MoneyPerCent
        r == x % MoneyPerCent
    IN IF 2 * r < MoneyPerCent THEN q * MoneyPerCent
       ELSE IF 2 * r > MoneyPerCent THEN (q + 1) * MoneyPerCent
       ELSE IF q % 2 = 0 THEN q * MoneyPerCent ELSE (q + 1) * MoneyPerCent

\* lines 39-87; a float division by zero raises ZeroDivisionError
calculate_retirement_needs(p, inc) ==
    LET years_to_retirement == p.retirement_age - p.current_age
        years_in_retirement == p.life_expectancy - p.retirement_age
        required_annual_income == (inc * p.replacement_ratio) \div RateScale
        future_required_income ==
            (required_annual_income * Pow(RateScale + p.inflation_rate, years_to_retirement))
                \div RateScale
        real_return == ((p.expected_return - p.inflation_rate) * RateScale)
                          \div (RateScale + p.inflation_rate)
        discount == (RateScale * RateScale) \div Pow(RateScale + real_return, years_in_retirement)
        retirement_corpus ==
            IF real_return > 0
               THEN (future_required_income * (RateScale - discount)) \div real_return
               ELSE future_required_income * years_in_retirement
        future_value_current_savings ==
            (p.current_savings * Pow(RateScale + p.expected_return, years_to_retirement))
                \div RateScale
        monthly_rate == p.expected_return \div 12
        months_to_retirement == years_to_retirement * 12
        growth == Pow(RateScale + monthly_rate, months_to_retirement) - RateScale
        future_value_contributions ==
            IF monthly_rate > 0
               THEN (p.monthly_contribution * growth) \div monthly_rate
               ELSE p.monthly_contribution * months_to_retirement
        total_accumulated == future_value_current_savings + future_value_contributions
        shortfall == Max(0, retirement_corpus - total_accumulated)
        annuity_branch == shortfall > 0 /\ monthly_rate > 0
        required_additional_monthly ==
            IF annuity_branch
               THEN (shortfall * monthly_rate) \div growth
               ELSE IF months_to_retirement > 0 THEN shortfall \div months_to_retirement
               ELSE 0
    IN IF annuity_branch /\ growth = 0
          THEN [status |-> "raised", error |-> "ZeroDivisionError"]
          ELSE [status |-> "returned",
                retirement_corpus_needed |-> Round2(retirement_corpus),
                future_required_annual_income |-> Round2(future_required_income),
                current_savings_future_value |-> Round2(future_value_current_savings),
                contributions_future_value |-> Round2(future_value_contributions),
                total_accumulated |-> Round2(total_accumulated),
                shortfall |-> Round2(shortfall),
                required_additional_monthly_savings |-> Round2(required_additional_monthly),
                years_to_retirement |-> years_to_retirement,
                years_in_retirement |-> years_in_retirement,
                is_on_track |-> (shortfall <= 0)]

PlanChoices ==
    [current_age : {83},
     retirement_age : {83, 84, 85},
     life_expectancy : {85},
     current_savings : {0, 9996, 10000},
     monthly_contribution : {0, 100},
     expected_return : {0, 300, 1200},
     inflation_rate : {0, 300},
     replacement_ratio : {8000, 10000}]

IncomeChoices == {10000, 10004, 12500}

RetInit ==
    /\ plan \in PlanChoices
    /\ income \in IncomeChoices
    /\ rPc = "call"
    /\ analysis = [status |-> "none"]

RetParked ==
    /\ plan = [current_age |-> 83, retirement_age |-> 85, life_expectancy |-> 85,
               current_savings |-> 0, monthly_contribution |-> 0, expected_return |-> 0,
               inflation_rate |-> 300, replacement_ratio |-> 8000]
    /\ income = 0
    /\ rPc = "idle"
    /\ analysis = [status |-> "none"]

CalculateRetirementNeeds ==
    /\ rPc = "call"
    /\ analysis' = calculate_retirement_needs(plan, income)
    /\ rPc' = "done"
    /\ UNCHANGED <<plan, income, notRet>>

RetNext ==
    \/ CalculateRetirementNeeds

(***************************************************************************)
(* FinancialCalculator.monte_carlo_retirement_simulation                   *)
(* Balances in whole currency units, returns and inflation in percent.     *)
(***************************************************************************)
\* values np.random.normal(expected_return, return_volatility) may take, in percent
ReturnDraws == {-150, -50, 0, 50}

\* `if balance <= 0: break`
StopsWithdrawalBelowZeroOnly(b) == b < 0
StopsWithdrawal(b) == b <= 0

\* `if balance > 0: success_count += 1`
CountsAsSuccessNonNegative(b) == b >= 0
CountsAsSuccess(b) == b > 0

NoResult == [status |-> "none"]

\* round(k / n, 3) in thousandths. At an exact decimal tie the binary value of
\* the quotient decides which neighbour Python returns; both are allowed.
Round3Choices(k, n) ==
    LET q == (1000 * k) \div n
        r == 1000 * k - q * n
    IN  IF 2 * r < n THEN {q} ELSE IF 2 * r > n THEN {q + 1} ELSE {q, q + 1}

\* _get_retirement_recommendation(success_rate) with success_rate = k / n
get_retirement_recommendation(k, n) ==
    IF 10 * k >= 9 * n THEN "excellent"
    ELSE IF 4 * k >= 3 * n THEN "good"
    ELSE IF 2 * k >= n THEN "moderate"
    ELSE "high risk"

Grow(b, r) == (b * (100 + r)) \div 100

McChoices ==
    [years_to_retirement : {0, 1},
     years_in_retirement : {0, 1, 2},
     current_savings : {0, 100},
     annual_contribution : {0, 10},
     current_annual_income : {50},
     replacement_ratio : {100},
     inflation_rate : {0, 10},
     num_simulations : {1, 2, 3}]

RECURSIVE Escalate(_, _, _)
Escalate(x, pct, n) == IF n = 0 THEN x ELSE (Escalate(x, pct, n - 1) * (100 + pct)) \div 100

\* lines 163-164: current_annual_income * replacement_ratio, escalated by
\* (1 + inflation_rate) ** years_to_retirement
RequiredAtRetirement(in) ==
    Escalate((in.current_annual_income * in.replacement_ratio) \div 100,
             in.inflation_rate, in.years_to_retirement)

\* start of one trial: `balance = retirement_plan.current_savings`
StartTrial(in) ==
    /\ balance' = in.current_savings
    /\ year' = 0
    /\ ends' = << >>
    /\ mcPc' = "accumulate"

McInit ==
    /\ mcIn \in McChoices
    /\ mcPc = "accumulate"
    /\ trial = 1
    /\ year = 0
    /\ balance = mcIn.current_savings
    /\ required = 0
    /\ ends = << >>
    /\ success_count = 0
    /\ final_balances = << >>
    /\ trials = << >>
    /\ mcResult = NoResult

McParked ==
    /\ mcIn = [years_to_retirement |-> 0, years_in_retirement |-> 0, current_savings |-> 0,
               annual_contribution |-> 0, current_annual_income |-> 0,
               replacement_ratio |-> 100,
               inflation_rate |-> 0, num_simulations |-> 1]
    /\ mcPc = "idle"
    /\ trial = 0
    /\ year = 0
    /\ balance = 0
    /\ required = 0
    /\ ends = << >>
    /\ success_count = 0
    /\ final_balances = << >>
    /\ trials = << >>
    /\ mcResult = NoResult

\* one pass of `for year in range(years_to_retirement)`
AccumulateYear ==
    /\ mcPc = "accumulate"
    /\ year < mcIn.years_to_retirement
    /\ \E r \in ReturnDraws : balance' = Grow(balance, r) + mcIn.annual_contribution
    /\ year' = year + 1
    /\ UNCHANGED <<mcIn, mcPc, trial, required, ends, success_count, final_balances,
                   trials, mcResult, notMc>>

\* the accumulation loop is over: required_annual_income is set for the
\* withdrawal phase
StartWithdrawal ==
    /\ mcPc = "accumulate"
    /\ year >= mcIn.years_to_retirement
    /\ required' = RequiredAtRetirement(mcIn)
    /\ mcPc' = IF mcIn.years_in_retirement > 0 THEN "withdraw" ELSE "trial_end"
    /\ year' = 0
    /\ UNCHANGED <<mcIn, trial, balance, ends, success_count, final_balances,
                   trials, mcResult, notMc>>

\* one pass of `for year in range(years_in_retirement)`, its break included
WithdrawYear ==
    /\ mcPc = "withdraw"
    /\ \E r \in ReturnDraws :
         LET b == Grow(balance, r) - required
         IN /\ balance' = b
            /\ ends' = Append(ends, b)
            /\ mcPc' = IF StopsWithdrawal(b) \/ year + 1 >= mcIn.years_in_retirement
                          THEN "trial_end" ELSE "withdraw"
    /\ required' = (required * (100 + mcIn.inflation_rate)) \div 100
    /\ year' = year + 1
    /\ UNCHANGED <<mcIn, trial, success_count, final_balances, trials, mcResult, notMc>>

\* lines 174-177, then the next trial or the return
EndTrial ==
    /\ mcPc = "trial_end"
    /\ success_count' = IF CountsAsSuccess(balance) THEN success_count + 1 ELSE success_count
    /\ final_balances' = Append(final_balances, balance)
    /\ trials' = Append(trials, [ends |-> ends, success |-> CountsAsSuccess(balance),
                                 final |-> balance])
    /\ IF trial < mcIn.num_simulations
          THEN /\ trial' = trial + 1
               /\ StartTrial(mcIn)
          ELSE /\ trial' = trial
               /\ mcPc' = "done"
               /\ UNCHANGED <<year, balance, ends>>
    /\ UNCHANGED <<mcIn, required, mcResult, notMc>>

\* lines 179-188: success_rate and the returned dict (the median and the
\* percentiles of final_balances are outputs no later step reads)
McReturn ==
    /\ mcPc = "done"
    /\ \E sr \in Round3Choices(success_count, mcIn.num_simulations) :
         mcResult' = [status |-> "returned",
                      success_rate |-> sr,
                      simulations_run |-> mcIn.num_simulations,
                      recommendation |->
                          get_retirement_recommendation(success_count,
                                                        mcIn.num_simulations)]
    /\ mcPc' = "returned"
    /\ UNCHANGED <<mcIn, trial, year, balance, required, ends, success_count,
                   final_balances, trials, notMc>>

McNext ==
    \/ AccumulateYear
    \/ StartWithdrawal
    \/ WithdrawYear
    \/ EndTrial
    \/ McReturn

\* The simulation loop as it stands after its last trial, for calls with many
\* trials: a plan with one accumulation year and no withdrawal year, of whose
\* n trials the first k drew +50% and ended positive and the rest drew -150%.
MaxTrials == 209

McLoopDone ==
    \E n \in 1..MaxTrials, k \in 0..MaxTrials :
        LET fin(i) == IF i <= k THEN Grow(100, 50) ELSE Grow(100, -150)
        IN  /\ k <= n
            /\ mcIn = [years_to_retirement |-> 1, years_in_retirement |-> 0,
                       current_savings |-> 100, annual_contribution |-> 0,
                       current_annual_income |-> 50, replacement_ratio |-> 100,
                       inflation_rate |-> 0, num_simulations |-> n]
            /\ mcPc = "done"
            /\ trial = n
            /\ year = 0
            /\ balance = fin(n)
            /\ required = RequiredAtRetirement(mcIn)
            /\ ends = << >>
            /\ success_count = k
            /\ final_balances = [i \in 1..n |-> fin(i)]
            /\ trials = [i \in 1..n |-> [ends |-> << >>,
                                          success |-> CountsAsSuccess(fin(i)),
                                          final |-> fin(i)]]
            /\ mcResult = NoResult

McReturnNext == McReturn


(***************************************************************************)
(* One instrument's generated price series and the metrics computed on it  *)
(* Prices in thousandths of a currency unit; a ratio is a pair num/den     *)
(* with den > 0, compared by cross-multiplication.                         *)
(***************************************************************************)
PriceFloor == MoneyPerCent      \* the 0.01 of `max(prices[-1] + price_change, 0.01)`

\* values the initial price may take (0.01, 0.10, 1.00)
InitialPrices == {PriceFloor, 10 * PriceFloor, 100 * PriceFloor}

\* values (drift + cycle_factor + shock) may take, in percent: the Gaussian
\* shock is unbounded, so the relative change can fall below -100%
ChangeDraws == {-200, -50, 0, 100}

\* jump_size in percent (random.uniform(-0.1, 0.1)) on a jump day; a day
\* without a jump leaves new_price as it is, which is the draw 0
JumpDraws == {-10, 0, 10}

Frac(n, d) == [num |-> n, den |-> d]
FracEq(a, b) == a.num * b.den = b.num * a.den
FracLeq(a, b) == a.num * b.den <= b.num * a.den
\* Python's max(a, b): b only when it is strictly greater
FracMax(a, b) == IF FracLeq(b, a) THEN a ELSE b

\* line 336: new_price before the jump
FlooredPrice(last, change) ==
    LET moved == last + (last * change) \div 100
    IN  IF moved > PriceFloor THEN moved ELSE PriceFloor

\* lines 339-341: `new_price *= (1 + jump_size)`
AfterJump(price, jump) == (price * (100 + jump)) \div 100

\* `if price > peak` of _calculate_max_drawdown
NewPeakOnFall(price, peak) == price < peak
NewPeak(price, peak) == price > peak

RECURSIVE DrawdownLoop(_, _, _, _)
DrawdownLoop(p, i, peak, max_dd) ==
    IF i > Len(p) THEN max_dd
    ELSE LET pk == IF NewPeak(p[i], peak) THEN p[i] ELSE peak
         IN  DrawdownLoop(p, i + 1, pk, FracMax(max_dd, Frac(pk - p[i], pk)))

calculate_max_drawdown(p) == DrawdownLoop(p, 1, p[1], Frac(0, 1))

\* year_start_idx of _calculate_ytd_return, counted from 1: the first date of
\* the current year, or the first date of the series when there is none
YearStartIdx(ds, now) ==
    IF \E i \in 1..Len(ds) : ds[i] = now
       THEN CHOOSE i \in 1..Len(ds) :
                /\ ds[i] = now
                /\ \A j \in 1..(i - 1) : ds[j] # now
       ELSE 1

calculate_ytd_return(ds, p, now) ==
    LET idx == YearStartIdx(ds, now)
    IN  IF idx < Len(p) THEN Frac(p[Len(p)] - p[idx], p[idx]) ELSE Frac(0, 1)

PxInit ==
    /\ pxPc = "generate"
    /\ prices \in {<<p0>> : p0 \in InitialPrices}
    /\ dates = <<0>>
    /\ closes = << >>
    /\ nowYear = 0
    /\ ytd_return = Frac(0, 1)
    /\ max_drawdown = Frac(0, 1)

PxParked ==
    /\ pxPc = "idle"
    /\ prices = << >>
    /\ dates = << >>
    /\ closes = << >>
    /\ nowYear = 0
    /\ ytd_return = Frac(0, 1)
    /\ max_drawdown = Frac(0, 1)

\* one pass of the loop of _generate_price_series, for the next daily date
\* (which may be the first of a new calendar year)
PriceStep ==
    /\ pxPc = "generate"
    /\ Len(prices) < SeriesDays
    /\ \E change \in ChangeDraws, jump \in JumpDraws :
         LET new_price == FlooredPrice(prices[Len(prices)], change)
         IN  prices' = Append(prices, AfterJump(new_price, jump))
    /\ \E turn \in {0, 1} : dates' = Append(dates, dates[Len(dates)] + turn)
    /\ UNCHANGED <<pxPc, closes, nowYear, ytd_return, max_drawdown, notPx>>

\* _generate_price_series returns
PriceSeriesDone ==
    /\ pxPc = "generate"
    /\ Len(prices) >= SeriesDays
    /\ pxPc' = "store"
    /\ UNCHANGED <<prices, dates, closes, nowYear, ytd_return, max_drawdown, notPx>>

\* generate_historical_data lines 194-217: close_price is stored rounded
StoreSeries ==
    /\ pxPc = "store"
    /\ closes' = [i \in 1..Len(prices) |-> Round2(prices[i])]
    /\ pxPc' = "metrics"
    /\ UNCHANGED <<prices, dates, nowYear, ytd_return, max_drawdown, notPx>>

\* _calculate_performance_metrics for the symbol, on the stored rows; the year
\* may have turned since end_date was taken
ComputeMetrics ==
    /\ pxPc = "metrics"
    /\ \E now \in {dates[Len(dates)], dates[Len(dates)] + 1} :
         /\ nowYear' = now
         /\ ytd_return' = calculate_ytd_return(dates, closes, now)
    /\ max_drawdown' = calculate_max_drawdown(closes)
    /\ pxPc' = "done"
    /\ UNCHANGED <<prices, dates, closes, notPx>>

PxNext ==
    \/ PriceStep
    \/ PriceSeriesDone
    \/ StoreSeries
    \/ ComputeMetrics


(***************************************************************************)
(* validators.validate_user_input                                          *)
(* A field value is [kind, v]: kind "num" is a number of v tenths, "nan"   *)
(* the float NaN (or the string 'nan'), "text" a string that is no number, *)
(* "none" None. risk_tolerance is [kind, s]: a string s or a non-string.   *)
(***************************************************************************)
Num(tenths) == [kind |-> "num", v |-> tenths]
NotANumber == [kind |-> "nan", v |-> 0]
Text == [kind |-> "text", v |-> 0]
None == [kind |-> "none", v |-> 0]

required_fields ==
    <<"age", "retirement_age", "annual_salary", "annual_expenses", "current_savings",
      "risk_tolerance">>
financial_fields == <<"annual_salary", "annual_expenses", "current_savings">>
valid_risk_levels == {"conservative", "moderate", "aggressive"}
valid_markets == {"UAE", "US", "Global"}

\* int(x): a number is truncated toward zero; NaN and a non-numeric string
\* raise ValueError, None raises TypeError
IntRaises(x) == x.kind # "num"
IntOf(x) == IF x.v >= 0 THEN x.v \div 10 ELSE 0 - ((0 - x.v) \div 10)

\* float(x): NaN and 'nan' give NaN, a non-numeric string raises ValueError,
\* None raises TypeError
FloatRaises(x) == x.kind \in {"text", "none"}
\* `value < 0` on float(x): false for NaN
IsNegative(x) == x.kind = "num" /\ x.v < 0

\* str.lower() on the strings used here
Lower(s) == IF s = "MODERATE" THEN "moderate" ELSE s

\* lines 21-39: the errors of the age block
AgeErrors(d) ==
    IF IntRaises(d.age) \/ IntRaises(d.retirement_age)
       THEN <<"Age and retirement age must be valid numbers">>
       ELSE LET age == IntOf(d.age)
                retirement_age == IntOf(d.retirement_age)
            IN  (IF age < 18 \/ age > 100
                    THEN <<"Age must be between 18 and 100">> ELSE << >>)
                \o (IF retirement_age <= age
                       THEN <<"Retirement age must be greater than current age">>
                       ELSE << >>)
                \o (IF retirement_age > 100
                       THEN <<"Retirement age must be 100 or less">> ELSE << >>)

\* lines 41-50: the errors of the financial fields from the i-th on
RECURSIVE FinancialErrors(_, _)
FinancialErrors(d, i) ==
    IF i > Len(financial_fields) THEN << >>
    ELSE LET value == d[financial_fields[i]]
         IN  (IF FloatRaises(value) THEN <<"must be a valid number">>
              ELSE IF IsNegative(value) THEN <<"cannot be negative">>
              ELSE << >>)
             \o FinancialErrors(d, i + 1)

\* lines 14-16
RECURSIVE MissingErrors(_, _)
MissingErrors(d, i) ==
    IF i > Len(required_fields) THEN << >>
    ELSE (IF required_fields[i] \in d.has THEN << >> ELSE <<"Missing required field">>)
         \o MissingErrors(d, i + 1)

validate_user_input(d) ==
    IF MissingErrors(d, 1) # << >>
       THEN [status |-> "returned", valid |-> FALSE, errors |-> MissingErrors(d, 1)]
    ELSE IF d.risk_tolerance.kind # "str"
       THEN [status |-> "raised", valid |-> FALSE, errors |-> <<"AttributeError">>]
    ELSE LET errors ==
                 AgeErrors(d)
                 \o FinancialErrors(d, 1)
                 \o (IF Lower(d.risk_tolerance.s) \notin valid_risk_levels
                        THEN <<"Risk tolerance must be one of">> ELSE << >>)
                 \o (IF "preferred_market" \in d.has /\ d.preferred_market \notin valid_markets
                        THEN <<"Preferred market must be one of">> ELSE << >>)
                 \o (IF "goals" \in d.has /\ d.goals # "non-empty list"
                        THEN <<"Goals must be a non-empty list">> ELSE << >>)
         IN  [status |-> "returned", valid |-> (Len(errors) = 0), errors |-> errors]

RequiredSet == {required_fields[i] : i \in 1..Len(required_fields)}

\* the dicts a caller may pass
UserDataChoices ==
    [has : {RequiredSet, RequiredSet \ {"age"}, RequiredSet \ {"risk_tolerance"},
            RequiredSet \cup {"preferred_market"}, RequiredSet \cup {"goals"}},
     age : {Num(179), Num(180), Num(995), Num(1010), Text},
     retirement_age : {Num(180), Num(650), Num(1000), Num(1009), None},
     annual_salary : {Num(0), Num(-1), NotANumber, Text},
     annual_expenses : {Num(0), Num(-1)},
     current_savings : {Num(500000), NotANumber},
     risk_tolerance : {[kind |-> "str", s |-> "moderate"], [kind |-> "str", s |-> "MODERATE"],
                       [kind |-> "str", s |-> "risky"], [kind |-> "int", s |-> ""]},
     preferred_market : {"US", "Mars"},
     goals : {"non-empty list", "empty list"}]

NoValidation == [status |-> "none", valid |-> FALSE, errors |-> << >>]

ValInit ==
    /\ user_data \in UserDataChoices
    /\ vPc = "call"
    /\ validation = NoValidation

ValParked ==
    /\ user_data = [has |-> {}, age |-> None, retirement_age |-> None,
                    annual_salary |-> None, annual_expenses |-> None,
                    current_savings |-> None,
                    risk_tolerance |-> [kind |-> "int", s |-> ""],
                    preferred_market |-> "US", goals |-> "empty list"]
    /\ vPc = "idle"
    /\ validation = NoValidation

ValidateUserInput ==
    /\ vPc = "call"
    /\ validation' = validate_user_input(user_data)
    /\ vPc' = "done"
    /\ UNCHANGED <<user_data, notVal>>

ValNext == ValidateUserInput


(***************************************************************************)
(* _calculate_performance_metrics: the row written for one symbol          *)
(***************************************************************************)
MaxStored == 1300         \* most price rows a symbol is given

MetricsDataMin == 252     \* if len(data) < 252: continue
OneYearRows == 252        \* ... if len(prices) >= 252 else None
ThreeYearRows == 756      \* ... if len(prices) >= 756 else None
FiveYearRows == 1260      \* ... if len(prices) >= 1260 else None

\* no performance_metrics row for the symbol
NoMetricsRow == [written |-> FALSE, one_year_null |-> TRUE, three_year_null |-> TRUE,
                 five_year_null |-> TRUE]

\* the loop body of _calculate_performance_metrics for a symbol with n stored
\* prices, on a table that holds no row for it
performance_metrics_row(n) ==
    IF n < MetricsDataMin
       THEN NoMetricsRow
       ELSE [written |-> TRUE,
             one_year_null |-> ~(n >= OneYearRows),
             three_year_null |-> ~(n >= ThreeYearRows),
             five_year_null |-> ~(n >= FiveYearRows)]

MtInit ==
    /\ mtLen \in 1..MaxStored
    /\ mtPc = "call"
    /\ mtRow = NoMetricsRow

MtParked ==
    /\ mtLen = 1
    /\ mtPc = "idle"
    /\ mtRow = NoMetricsRow

CalculatePerformanceMetrics ==
    /\ mtPc = "call"
    /\ mtRow' = performance_metrics_row(mtLen)
    /\ mtPc' = "done"
    /\ UNCHANGED <<mtLen, notMt>>

MtNext == CalculatePerformanceMetrics

(***************************************************************************)
(* optimize_portfolio after the solver returned: the allocation dict       *)
(* Solved weights are counted in 1/AllocUnit, reported ones in 1/10000.    *)
(***************************************************************************)
AllocUnit == 100000

\* symbols = assets_df['symbol'].tolist() of an unfiltered request
AllocSymbols == [i \in 1..NumInstruments |-> Instruments[i].symbol]

\* round(w, 4), in ten-thousandths; a solved weight at a decimal tie is a float
\* just below or just above it, so either neighbour can come out
Round4Choices(w, unit) ==
    LET q == (10000 * w) \div unit
        rem == (10000 * w) % unit
    IN IF 2 * rem < unit THEN {q}
       ELSE IF 2 * rem > unit THEN {q + 1}
       ELSE {q, q + 1}

\* weights the solver leaves on the small assets: around the 0.001 threshold
\* and around the rounding steps next to it
SmallWeights == {0, 50, 100, 101, 103, 105, 110, 115, 1000, 30000}

\* result.x of a converged solve under bounds (0, 1): within the bounds, sum 1
SolvedWeights ==
    {<<a, b, AllocUnit - a - b>> : a \in SmallWeights, b \in SmallWeights}

AlInit ==
    /\ alWeights \in SolvedWeights
    /\ alPc = "loop"
    /\ alIdx = 1
    /\ alAllocation = << >>
    /\ alTotal = 0

AlParked ==
    /\ alWeights = <<0, 0, AllocUnit>>
    /\ alPc = "idle"
    /\ alIdx = 0
    /\ alAllocation = << >>
    /\ alTotal = 0

\* lines 185-190: one pass of the loop over enumerate(symbols)
AllocationStep ==
    /\ alPc = "loop"
    /\ IF Significant(alWeights[alIdx], AllocUnit)
          THEN \E r \in Round4Choices(alWeights[alIdx], AllocUnit) :
                  alAllocation' = Append(alAllocation,
                                         [symbol |-> AllocSymbols[alIdx], weight |-> r])
          ELSE alAllocation' = alAllocation
    /\ IF alIdx < Len(AllocSymbols)
          THEN alIdx' = alIdx + 1 /\ alPc' = alPc
          ELSE alIdx' = alIdx /\ alPc' = "return"
    /\ UNCHANGED <<alWeights, alTotal, notAl>>

\* lines 192-201: 'total_assets': len(allocation)
AllocationReturn ==
    /\ alPc = "return"
    /\ alTotal' = Len(alAllocation)
    /\ alPc' = "done"
    /\ UNCHANGED <<alWeights, alIdx, alAllocation, notAl>>

AlNext ==
    \/ AllocationStep
    \/ AllocationReturn

(***************************************************************************)
(* FinancialCalculator.calculate_debt_payoff                               *)
(***************************************************************************)
MaxDebts == 2           \* longest list of debts passed in
SafetyBreak == 600      \* if month > 600: break

Min(a, b) == IF a < b THEN a ELSE b

\* debts a caller lists: equal and different rates and balances, a debt that
\* is already at 0, minimum payments of 0 and below 0
DebtCatalogue ==
    { [name |-> "card",     balance |-> 9,  rate |-> 5,  min_payment |-> 0],
      [name |-> "loan",     balance |-> 10, rate |-> 20, min_payment |-> 3],
      [name |-> "store",    balance |-> 9,  rate |-> 20, min_payment |-> 1],
      [name |-> "closed",   balance |-> 0,  rate |-> 20, min_payment |-> 3],
      [name |-> "deferred", balance |-> 10, rate |-> 5,  min_payment |-> -1] }

RECURSIVE DebtListsOf(_)
DebtListsOf(n) ==
    IF n = 0 THEN {<< >>}
    ELSE LET shorter == DebtListsOf(n - 1)
         IN shorter \cup
            {Append(l, d) : l \in {s \in shorter : Len(s) = n - 1},
                            d \in DebtCatalogue}

\* lists without a name twice
DebtLists ==
    {l \in DebtListsOf(MaxDebts) :
        \A i, j \in 1..Len(l) : l[i].name = l[j].name => i = j}

ExtraChoices == {-1, 0, 1, 20}
StrategyChoices == {"avalanche", "snowball"}

\* sorted(..., key=rate, reverse=True) / sorted(..., key=balance): whether a
\* goes strictly before b
GoesBeforeAscendingRate(a, b, s) ==
    IF s = "avalanche" THEN a.rate < b.rate ELSE a.balance < b.balance
GoesBefore(a, b, s) ==
    IF s = "avalanche" THEN a.rate > b.rate ELSE a.balance < b.balance

\* x put into an already sorted list behind every element it does not go
\* strictly before: the sort is stable, also with reverse=True
RECURSIVE InsertSorted(_, _, _)
InsertSorted(x, l, s) ==
    IF l = << >> THEN <<x>>
    ELSE IF GoesBefore(x, l[Len(l)], s)
         THEN Append(InsertSorted(x, SubSeq(l, 1, Len(l) - 1), s), l[Len(l)])
         ELSE Append(l, x)

RECURSIVE SortedDebts(_, _)
SortedDebts(l, s) ==
    IF l = << >> THEN << >>
    ELSE InsertSorted(l[Len(l)], SortedDebts(SubSeq(l, 1, Len(l) - 1), s), s)

RECURSIVE SumOf(_, _, _)
SumOf(l, field, i) ==
    IF i > Len(l) THEN 0 ELSE l[i][field] + SumOf(l, field, i + 1)

\* lines 244-246: the minimum payment on every remaining debt
AfterMinimumNoFloor(l) ==
    [i \in 1..Len(l) |-> [l[i] EXCEPT !.balance = l[i].balance - l[i].min_payment]]
AfterMinimum(l) ==
    [i \in 1..Len(l) |->
        [l[i] EXCEPT !.balance = Max(0, l[i].balance - l[i].min_payment)]]

\* lines 249-253: the extra payment on remaining_debts[0]
ExtraTo(l, extra) == Min(extra, l[1].balance)
AfterExtra(l, extra) ==
    IF l # << >> /\ extra > 0
       THEN [l EXCEPT ![1].balance = l[1].balance - ExtraTo(l, extra)]
       ELSE l

\* line 256: [debt for debt in remaining_debts if debt['balance'] > 0]
RECURSIVE StillOwed(_, _)
StillOwed(l, i) ==
    IF i > Len(l) THEN << >>
    ELSE IF l[i].balance > 0 THEN <<l[i]>> \o StillOwed(l, i + 1)
         ELSE StillOwed(l, i + 1)

RECURSIVE PaidOff(_, _)
PaidOff(l, i) ==
    IF i > Len(l) THEN << >>
    ELSE IF l[i].balance > 0 THEN PaidOff(l, i + 1)
         ELSE <<l[i]>> \o PaidOff(l, i + 1)

NoExtraLog == [month |-> 0, at_start |-> << >>, after_minimum |-> << >>,
               priority |-> "", payment |-> 0]
NoPayoff == [months_to_payoff |-> 0, total_interest |-> 0, total_payments |-> 0,
             strategy_used |-> "", monthly_payment |-> 0]

DebtInit ==
    /\ debts \in DebtLists
    /\ extra_payment \in ExtraChoices
    /\ strategy \in StrategyChoices
    /\ dPc = "call"
    /\ sorted_debts = << >>
    /\ remaining_debts = << >>
    /\ month = 0
    /\ extraLog = NoExtraLog
    /\ settled = << >>
    /\ payoff = NoPayoff

DebtParked ==
    /\ debts = << >>
    /\ extra_payment = 0
    /\ strategy = "avalanche"
    /\ dPc = "idle"
    /\ sorted_debts = << >>
    /\ remaining_debts = << >>
    /\ month = 0
    /\ extraLog = NoExtraLog
    /\ settled = << >>
    /\ payoff = NoPayoff

\* lines 226-239: the payoff order, the copies, and the first test of the loop
DebtPayoffEnter ==
    /\ dPc = "call"
    /\ sorted_debts' = SortedDebts(debts, strategy)
    /\ remaining_debts' = sorted_debts'
    /\ dPc' = IF sorted_debts' = << >> THEN "return" ELSE "loop"
    /\ UNCHANGED <<debts, extra_payment, strategy, month, extraLog, settled, payoff,
                   notDebt>>

\* lines 239-259: one simulated month
DebtPayoffMonth ==
    /\ dPc = "loop"
    /\ LET paid_minimum == AfterMinimum(remaining_debts)
           paid_extra == AfterExtra(paid_minimum, extra_payment)
       IN /\ month' = month + 1
          /\ extraLog' = [month |-> month + 1,
                          at_start |-> remaining_debts,
                          after_minimum |-> paid_minimum,
                          priority |-> IF extra_payment > 0 THEN paid_minimum[1].name
                                       ELSE "",
                          payment |-> IF extra_payment > 0
                                         THEN ExtraTo(paid_minimum, extra_payment)
                                         ELSE 0]
          /\ remaining_debts' = StillOwed(paid_extra, 1)
          /\ settled' = settled \o PaidOff(paid_extra, 1)
          /\ dPc' = IF month' > SafetyBreak \/ remaining_debts' = << >>
                       THEN "return" ELSE "loop"
    /\ UNCHANGED <<debts, extra_payment, strategy, sorted_debts, payoff, notDebt>>

\* lines 261-270: the returned dict (amounts before rounding)
DebtPayoffReturn ==
    /\ dPc = "return"
    /\ LET total_balance == SumOf(debts, "balance", 1)
           total_min_payment == SumOf(debts, "min_payment", 1)
           total_payment == total_min_payment + extra_payment
           total_interest == month * total_min_payment + extra_payment * month
                             - total_balance
       IN payoff' = [months_to_payoff |-> month,
                     total_interest |-> Max(0, total_interest),
                     total_payments |-> month * total_payment,
                     strategy_used |-> strategy,
                     monthly_payment |-> total_payment]
    /\ dPc' = "done"
    /\ UNCHANGED <<debts, extra_payment, strategy, sorted_debts, remaining_debts, month,
                   extraLog, settled, notDebt>>

DebtNext ==
    \/ DebtPayoffEnter
    \/ DebtPayoffMonth
    \/ DebtPayoffReturn

(***************************************************************************)
(* flask_backend/app.py: POST /api/financial-plan, the portfolio part      *)
(***************************************************************************)
\* instruments of the seeded table the handler's optimizer draws from (a
\* sample over all risk levels, both markets, compliant or not)
PlanInstruments ==
    << [symbol |-> "FAB",       market |-> "UAE", risk_level |-> 6, is_sharia_compliant |-> TRUE],
       [symbol |-> "ENBD",      market |-> "UAE", risk_level |-> 6, is_sharia_compliant |-> TRUE],
       [symbol |-> "EMAAR",     market |-> "UAE", risk_level |-> 7, is_sharia_compliant |-> TRUE],
       [symbol |-> "ETISALAT",  market |-> "UAE", risk_level |-> 5, is_sharia_compliant |-> TRUE],
       [symbol |-> "UAEGOV5Y",  market |-> "UAE", risk_level |-> 2, is_sharia_compliant |-> TRUE],
       [symbol |-> "SUKUK5Y",   market |-> "UAE", risk_level |-> 3, is_sharia_compliant |-> TRUE],
       [symbol |-> "SPY",       market |-> "US",  risk_level |-> 6, is_sharia_compliant |-> FALSE],
       [symbol |-> "QQQ",       market |-> "US",  risk_level |-> 8, is_sharia_compliant |-> FALSE],
       [symbol |-> "AGG",       market |-> "US",  risk_level |-> 3, is_sharia_compliant |-> FALSE],
       [symbol |-> "GLD",       market |-> "US",  risk_level |-> 4, is_sharia_compliant |-> TRUE] >>

\* OptimizationConstraints(sharia_compliant_only=..., market_preference=...,
\* risk_level_range=(max(1, rt - 2), min(10, rt + 2))), the rest at its default
PlanConstraints(p) ==
    [min_weight |-> 0, max_weight |-> WeightUnit, max_single_asset |-> 3,
     min_diversification |-> 5,
     sharia_compliant_only |-> p.sharia_compliant,
     market_preference |-> p.market_preference,
     risk_level_range |-> <<Max(1, p.risk_tolerance - 2), Min(10, p.risk_tolerance + 2)>>]

\* assets_df of the handler's optimize_portfolio call: the instruments that
\* pass the filter of get_available_assets
PlanAssets(c) == {i \in 1..Len(PlanInstruments) : PassesFilter(PlanInstruments[i], c)}

\* fewest entries a returned allocation has: each weight is at most
\* min(max_weight, max_single_asset) and the weights sum to 1
FewestHeld(c) ==
    LET hi == UpperBound(c)
    IN (WeightUnit + hi - 1) \div hi

\* the allocations a returned optimize_portfolio can report: symbols of
\* assets_df, each with the asset_info of its own row
OptimizerAllocations(c) ==
    IF Cardinality(PlanAssets(c)) < c.min_diversification THEN {}
    ELSE {S \in SUBSET PlanAssets(c) : Cardinality(S) >= FewestHeld(c)}

RECURSIVE AllocationsOf(_, _)
AllocationsOf(S, i) ==
    IF i > Len(PlanInstruments) THEN << >>
    ELSE IF i \in S
         THEN <<[symbol |-> PlanInstruments[i].symbol,
                 sharia_compliant |-> PlanInstruments[i].is_sharia_compliant]>>
              \o AllocationsOf(S, i + 1)
         ELSE AllocationsOf(S, i + 1)

Entry(symbol, sharia) == [symbol |-> symbol, sharia_compliant |-> sharia]

\* create_fallback_portfolio: the rule-based allocation
create_fallback_portfolio(p) ==
    IF p.risk_tolerance <= 3
       THEN [optimization_type |-> "rule_based",
             allocations |-> <<Entry("AGG", FALSE), Entry("SPY", FALSE),
                               Entry("FAB", TRUE), Entry("UAEETF", TRUE)>>]
    ELSE IF p.risk_tolerance <= 6
       THEN [optimization_type |-> "rule_based",
             allocations |-> <<Entry("SPY", FALSE), Entry("VTI", FALSE),
                               Entry("FAB", TRUE), Entry("AGG", FALSE),
                               Entry("EMAAR", TRUE)>>]
    ELSE [optimization_type |-> "rule_based",
          allocations |-> <<Entry("QQQ", FALSE), Entry("SPY", FALSE),
                            Entry("VTI", FALSE), Entry("EMAAR", TRUE),
                            Entry("FAB", TRUE)>>]

NoAnalysis == [optimization_type |-> "", allocations |-> << >>]

PlanProfiles ==
    [sharia_compliant : BOOLEAN, risk_tolerance : 1..10,
     market_preference : {"", "UAE", "US"}]

PlanInit ==
    /\ user_profile \in PlanProfiles
    /\ planPc = "portfolio"
    /\ portfolio_analysis = NoAnalysis
    /\ response = NoAnalysis

PlanParked ==
    /\ user_profile = [sharia_compliant |-> FALSE, risk_tolerance |-> 5,
                       market_preference |-> ""]
    /\ planPc = "idle"
    /\ portfolio_analysis = NoAnalysis
    /\ response = NoAnalysis

\* lines 67-98: optimize_portfolio returned; portfolio_analysis is built from
\* its allocation
PlanOptimized ==
    /\ planPc = "portfolio"
    /\ \E S \in OptimizerAllocations(PlanConstraints(user_profile)) :
          portfolio_analysis' = [optimization_type |-> "max_sharpe",
                                 allocations |-> AllocationsOf(S, 1)]
    /\ planPc' = "respond"
    /\ UNCHANGED <<user_profile, response, notPlan>>

\* lines 100-103: anything in the try block raised (too few assets, too little
\* data, no convergence, scipy missing, ...)
PlanFallback ==
    /\ planPc = "portfolio"
    /\ portfolio_analysis' = create_fallback_portfolio(user_profile)
    /\ planPc' = "respond"
    /\ UNCHANGED <<user_profile, response, notPlan>>

\* lines 133-142: the response carries portfolio_analysis as it is
PlanRespond ==
    /\ planPc = "respond"
    /\ response' = portfolio_analysis
    /\ planPc' = "done"
    /\ UNCHANGED <<user_profile, portfolio_analysis, notPlan>>

PlanNext ==
    \/ PlanOptimized
    \/ PlanFallback
    \/ PlanRespond

(***************************************************************************)
(* Claims                                                                  *)
(***************************************************************************)

C2_InfeasibleRaisesOwnKind ==
    (oPc = "done" /\ Len(get_available_assets(cons)) < cons.min_diversification) =>
        /\ outcome.status = "raised"
        /\ outcome.error.kind = "InfeasibleConstraintsError"
        /\ outcome.error.kind \notin {ErrInsufficientData.kind, ErrNotConverged.kind}

\* C3: a read on another connection during refresh_database returns, for the
\* symbol read, either the complete series of before the refresh or a complete
\* regenerated series, never an empty or partial one.
C3_ReaderSeesOldOrNew ==
    readerSeen.during = "refresh" =>
        \/ readerSeen.rows = readerSeen.old
        \/ \E e \in 0..MaxDay, g \in 1..MaxGen :
              readerSeen.rows = FullSeries(RefreshYears, e, g)

\* C4: once a regenerating operation (the constructor on a populated store, or
\* refresh_database) has finished, every stored row of every symbol was written
\* by that regeneration.
C4_OnlyRowsOfLastRegeneration ==
    dbPc = "idle" =>
        \A s \in Symbols : \A d \in Dates : histC[s][d] \in {0, gen}

\* C5: every optimization the frontier sweep runs is solved in target_return
\* mode under the constraint w.mu = the swept target of its own point.
C5_FrontierSolvesOwnTarget ==
    \A k \in 1..Len(fCalls) :
        fCalls[k].n > 0 =>
            /\ fCalls[k].has_target
            /\ fCalls[k].target_ret = Fin(fCalls[k].constraint_target)

\* C8: when the solver ends without converging, optimize_portfolio raises
\* OptimizationFailedError and returns no portfolio.
C8_NonConvergenceRaisesOptimizationFailed ==
    [][(oPc = "solving" /\ oPc' = "done" /\ outcome'.weights = NoWeights) =>
          (outcome'.status = "raised"
           /\ outcome'.error.kind = "OptimizationFailedError")]_vars

\* return observations a symbol with k price rows has: k - 1 simple returns
ReturnObservations(k) == IF k = 0 THEN 0 ELSE k - 1

\* C9: calculate_returns_covariance raises for insufficient data exactly when
\* fewer than 2 requested symbols have at least 30 return observations, and no
\* symbol with fewer than 30 return observations contributes a series.
C9_InsufficientDataExactly ==
    LET assets == get_available_assets(cons)
        enough == {i \in 1..Len(assets) : ReturnObservations(rows[assets[i]]) >= 30}
        estimated == /\ oPc \in {"solving", "done"}
                     /\ scipyOK
                     /\ Len(assets) >= cons.min_diversification
    IN estimated =>
          /\ (outcome.error = ErrInsufficientData) <=> (Cardinality(enough) < 2)
          /\ outcome.error # ErrInsufficientData =>
                \A i \in 1..Len(prob.mu) :
                    \E j \in enough : Contributing(assets, rows)[i] = assets[j]

\* C6: on the returned (rounded) fields, total_accumulated >=
\* retirement_corpus_needed implies shortfall = 0 and is_on_track, and
\* shortfall > 0 implies not is_on_track.
C6_RoundedFieldsConsistent ==
    (rPc = "done" /\ analysis.status = "returned") =>
        /\ analysis.total_accumulated >= analysis.retirement_corpus_needed =>
              (analysis.shortfall = 0 /\ analysis.is_on_track)
        /\ analysis.shortfall > 0 => ~analysis.is_on_track

\* C7: with retirement_age = current_age the call returns a result; it never
\* ends in a division by zero.
C7_NoDivisionByZeroAtRetirement ==
    (rPc = "done" /\ plan.retirement_age = plan.current_age) =>
        analysis.status = "returned"

\* the withdrawal loop of a finished trial ran until the horizon or until the
\* first year that ended with balance <= 0, and no further
StoppedAtFirstNonPositive(t) ==
    /\ Len(t.ends) <= mcIn.years_in_retirement
    /\ \A k \in 1..(Len(t.ends) - 1) : t.ends[k] > 0
    /\ Len(t.ends) < mcIn.years_in_retirement =>
          (Len(t.ends) >= 1 /\ t.ends[Len(t.ends)] <= 0)
    /\ t.final = IF Len(t.ends) = 0 THEN t.final ELSE t.ends[Len(t.ends)]

\* balance > 0 at the end of every one of the years_in_retirement years
PositiveThroughout(t) ==
    /\ Len(t.ends) = mcIn.years_in_retirement
    /\ \A k \in 1..Len(t.ends) : t.ends[k] > 0

\* C10 as stated: the withdrawal phase stops at the first year ending with
\* balance <= 0, and a trial counts as a success exactly when its balance was
\* > 0 at the end of every withdrawal year.
C10_SuccessIffPositiveEveryYear ==
    \A k \in 1..Len(trials) :
        /\ StoppedAtFirstNonPositive(trials[k])
        /\ trials[k].success <=> PositiveThroughout(trials[k])

\* C10 amended: the withdrawal phase stops at the first year ending with
\* balance <= 0; a trial counts as a success exactly when its final balance is
\* > 0, which with at least one withdrawal year is exactly when the balance was
\* > 0 at the end of every withdrawal year.
C10_SuccessIffFinalBalancePositive ==
    /\ \A k \in 1..Len(trials) :
          /\ StoppedAtFirstNonPositive(trials[k])
          /\ trials[k].success <=> trials[k].final > 0
          /\ mcIn.years_in_retirement >= 1 =>
                (trials[k].success <=> PositiveThroughout(trials[k]))
    /\ success_count = Cardinality({k \in 1..Len(trials) : trials[k].success})

\* two finished trials over a two-year horizon: one broke off after its first
\* withdrawal year at balance exactly 0, one stayed positive to the end
C10_Witness ==
    /\ mcIn.years_in_retirement = 2
    /\ \E i, j \in 1..Len(trials) :
          /\ trials[i].ends = <<0>>
          /\ ~trials[i].success
          /\ Len(trials[j].ends) = 2
          /\ trials[j].success

\* C13: while a planning request is served, from the entry of
\* analyze_portfolio_and_finances to its return, no row of historical_data or
\* performance_metrics is inserted, replaced or deleted, neither on the
\* request's connection nor in the committed store.
C13_RequestOnlyReads ==
    [][dbOp = "request" =>
          /\ histW' = histW
          /\ metricsW' = metricsW
          /\ histC' = histC
          /\ metricsC' = metricsC]_vars

FirstOfCurrentYear ==
    CHOOSE i \in 1..Len(dates) :
        /\ dates[i] = nowYear
        /\ \A j \in 1..(i - 1) : dates[j] # nowYear

\* C15: _calculate_ytd_return returns (last price - price at the first date of
\* the current year) / (price at the first date of the current year), and 0
\* when the series contains no date of the current year.
C15_YtdFromFirstDateOfYear ==
    pxPc = "done" =>
        IF \E i \in 1..Len(dates) : dates[i] = nowYear
           THEN FracEq(ytd_return,
                       Frac(closes[Len(closes)] - closes[FirstOfCurrentYear],
                            closes[FirstOfCurrentYear]))
           ELSE ytd_return.num = 0

\* C16: every close produced by _generate_price_series is >= 0.01, and every
\* stored close_price is > 0.
C16_CloseNeverBelowFloor ==
    /\ \A i \in 1..Len(prices) : prices[i] >= PriceFloor
    /\ \A i \in 1..Len(closes) : closes[i] > 0

\* the running peak at position i: the largest price up to and including it
RunningPeak(p, i) == CHOOSE m \in {p[j] : j \in 1..i} : \A j \in 1..i : p[j] <= m

\* C17: on a series of positive prices _calculate_max_drawdown returns the
\* maximum over the series of (running peak - price) / running peak, and the
\* value lies in [0,1].
C17_MaxDrawdownIsLargestFallFromPeak ==
    (pxPc = "done" /\ \A i \in 1..Len(closes) : closes[i] > 0) =>
        /\ \A i \in 1..Len(closes) :
              FracLeq(Frac(RunningPeak(closes, i) - closes[i], RunningPeak(closes, i)),
                      max_drawdown)
        /\ \E i \in 1..Len(closes) :
              FracEq(Frac(RunningPeak(closes, i) - closes[i], RunningPeak(closes, i)),
                     max_drawdown)
        /\ max_drawdown.den > 0
        /\ 0 <= max_drawdown.num
        /\ max_drawdown.num <= max_drawdown.den

\* a series that rose to a new peak, fell from it and recovered in part, with
\* its drawdown computed
C17_Witness ==
    /\ pxPc = "done"
    /\ closes[2] > closes[1]
    /\ closes[3] < closes[2]
    /\ closes[4] > closes[3]
    /\ closes[4] < closes[2]
    /\ FracEq(max_drawdown, Frac(closes[2] - closes[3], closes[2]))

\* C18: get_available_assets returns exactly the instruments that satisfy all
\* active filters (risk_level within the inclusive range, Sharia-compliant when
\* sharia_compliant_only is set, market equal to market_preference when one is
\* set), each exactly once, also when it has no performance_metrics row.
C18_ExactlyTheFilteredInstruments ==
    assetsSeen.asked =>
        \A k \in 1..NumInstruments :
            LET inst == Instruments[k]
                c == assetsSeen.cons
                wanted ==
                    /\ c.risk_level_range[1] <= inst.risk_level
                    /\ inst.risk_level <= c.risk_level_range[2]
                    /\ (c.sharia_compliant_only => inst.is_sharia_compliant)
                    /\ (c.market_preference # "" => inst.market = c.market_preference)
                times == Cardinality({i \in 1..Len(assetsSeen.rows) :
                                         assetsSeen.rows[i].symbol = inst.symbol})
            IN  times = IF wanted THEN 1 ELSE 0

\* a query answered while performance_metrics was empty, with an instrument
\* in the result and another one filtered out
C18_Witness ==
    /\ assetsSeen.asked
    /\ assetsSeen.cons.sharia_compliant_only
    /\ assetsSeen.cons.market_preference = "US"
    /\ Len(assetsSeen.rows) = 1
    /\ assetsSeen.rows[1].symbol = "GLD"
    /\ ~assetsSeen.rows[1].has_metrics

\* C19: for every age and every risk_tolerance in 1..10 the returned target is
\* clamp(0.10*e + 0.04*(1-e) + 0.01*(risk_tolerance-5), 0.03, 0.15) with
\* e = clamp((120-age)/100, 0.3, 0.9) (here in basis points, e in percent); it
\* lies in [0.03, 0.15], does not rise with age and does not fall with
\* risk_tolerance.
C19_TargetReturnFormulaAndMonotone ==
    tgPc = "done" =>
        LET age == tgProfile.age
            rt == tgProfile.risk_tolerance
            e == IF 120 - age < 30 THEN 30 ELSE IF 120 - age > 90 THEN 90 ELSE 120 - age
            blend == 10 * e + 4 * (100 - e) + 100 * (rt - 5)
        IN  /\ tgReturn = IF blend < 300 THEN 300 ELSE IF blend > 1500 THEN 1500 ELSE blend
            /\ tgReturn >= 300
            /\ tgReturn <= 1500
            /\ \A older \in age..MaxAge :
                  CalculateTargetReturn([age |-> older, risk_tolerance |-> rt]) <= tgReturn
            /\ \A bolder \in rt..10 :
                  CalculateTargetReturn([age |-> age, risk_tolerance |-> bolder]) >= tgReturn

\* a young, risk-seeking profile, for which the equity allocation is capped at
\* 0.9, with its target computed
C19_Witness ==
    /\ tgPc = "done"
    /\ tgProfile.age = 20
    /\ tgProfile.risk_tolerance = 10
    /\ tgReturn = 1440

\* C20: validate_user_input returns valid = True exactly when its errors list
\* is empty, and every input it accepts as valid has all six required fields,
\* 18 <= age <= 100, age < retirement_age <= 100, non-negative salary, expenses
\* and savings, and a risk_tolerance among conservative, moderate, aggressive
\* (compared without regard to case).
C20_AcceptedInputIsInRange ==
    (vPc = "done" /\ validation.status = "returned") =>
        /\ validation.valid <=> validation.errors = << >>
        /\ validation.valid =>
              /\ RequiredSet \subseteq user_data.has
              /\ user_data.age.kind = "num"
              /\ user_data.retirement_age.kind = "num"
              /\ 180 <= user_data.age.v
              /\ user_data.age.v <= 1000
              /\ user_data.age.v < user_data.retirement_age.v
              /\ user_data.retirement_age.v <= 1000
              /\ \A f \in {"annual_salary", "annual_expenses", "current_savings"} :
                    user_data[f].kind = "num" /\ user_data[f].v >= 0
              /\ user_data.risk_tolerance.kind = "str"
              /\ \E level \in {"conservative", "moderate", "aggressive"} :
                    Lower(user_data.risk_tolerance.s) = level

\* number of recorded trials that ended with balance > 0
PositiveFinals == Cardinality({i \in 1..Len(final_balances) : final_balances[i] > 0})

\* C11 as stated: the call runs exactly num_simulations trials, records one
\* final balance per trial and returns success_rate equal to (number of trials
\* ending with balance > 0) / num_simulations, within [0,1], with
\* simulations_run equal to the number of trials recorded.
C11_SuccessRateIsExactFraction ==
    mcPc = "returned" =>
        /\ Len(trials) = mcIn.num_simulations
        /\ Len(final_balances) = mcIn.num_simulations
        /\ mcResult.simulations_run = Len(final_balances)
        /\ mcResult.success_rate * mcIn.num_simulations = 1000 * PositiveFinals
        /\ mcResult.success_rate \in 0..1000

\* C11 amended: the returned success_rate is that fraction rounded to three
\* decimal places; the trial count, the one final balance per trial, the range
\* [0,1] and simulations_run are as stated.
C11_SuccessRateIsRoundedFraction ==
    /\ Len(final_balances) = Len(trials)
    /\ Len(trials) <= mcIn.num_simulations
    /\ mcPc \in {"done", "returned"} => Len(trials) = mcIn.num_simulations
    /\ mcPc = "returned" =>
          /\ mcResult.simulations_run = Len(final_balances)
          /\ mcResult.success_rate \in Round3Choices(PositiveFinals, mcIn.num_simulations)
          /\ mcResult.success_rate \in 0..1000

\* a three-trial call that returned with exactly one trial ending positive and
\* one ending at balance 0
C11_Witness ==
    /\ mcPc = "returned"
    /\ mcIn.num_simulations = 3
    /\ PositiveFinals = 1
    /\ \E i \in 1..Len(final_balances) : final_balances[i] = 0
    /\ mcResult.success_rate = 333

\* the band a returned success_rate (in thousandths) lies in
BandOfReturnedRate(sr) ==
    IF sr >= 900 THEN "excellent"
    ELSE IF sr >= 750 THEN "good"
    ELSE IF sr >= 500 THEN "moderate"
    ELSE "high risk"

\* C12: the recommendation in a result is the one of the band that contains
\* the success_rate returned in the same result.
C12_RecommendationMatchesReturnedRate ==
    mcPc = "returned" =>
        mcResult.recommendation = BandOfReturnedRate(mcResult.success_rate)

\* C21: in calculate_returns_covariance a symbol with k price rows in the window
\* contributes exactly k - 1 return observations, each a defined simple return:
\* the undefined first-row change is never stacked into the matrix the mean and
\* covariance are computed from.
C21_FirstRowChangeRemoved ==
    (oPc = "solving" /\ prob.n > 0) =>
        LET used == Contributing(prob.symbols, rows)
        IN \A i \in 1..Len(prob.mu) :
              /\ ReturnsLen(rows[used[i]]) = rows[used[i]] - 1
              /\ ~ReturnsLeadingNaN(rows[used[i]])
              /\ ~prob.mu[i].nan

\* C22: for every symbol with at least one stored price
\* _calculate_performance_metrics writes a performance_metrics row, in which
\* one_year_return, three_year_return and five_year_return are null exactly
\* when the series has fewer than 252, 756 and 1260 points.
C22_RowForEverySeriesNullsForShort ==
    mtPc = "done" =>
        /\ mtRow.written
        /\ mtRow.one_year_null <=> mtLen < 252
        /\ mtRow.three_year_null <=> mtLen < 756
        /\ mtRow.five_year_null <=> mtLen < 1260

\* C23: in every committed state of the store, each existing
\* performance_metrics row was computed from exactly the price rows currently
\* stored for its symbol.
C23_MetricsMatchStoredPrices ==
    \A s \in Symbols :
        metricsC[s].present => metricsC[s].from = histC[s]

\* C25: optimize_portfolio never returns a result whose volatility or
\* sharpe_ratio is undefined (NaN or infinite).
C25_ReturnedRiskFiguresDefined ==
    outcome.status = "returned" =>
        /\ ~outcome.volatility.nan
        /\ outcome.sharpe_ratio = "finite"

\* C27: the number of decision variables equals the length of the
\* expected-return vector returned by calculate_returns_covariance, also when
\* some filtered symbols are skipped for having fewer than 30 price rows, and
\* the i-th solved weight is reported under the symbol whose return series is
\* the i-th entry of that vector.
C27_DecisionVariablesMatchEstimate ==
    (oPc \in {"solving", "done"} /\ prob.n > 0) =>
        /\ prob.n = Len(prob.mu)
        /\ Contributing(prob.symbols, rows) = prob.symbols

\* C28: every returned portfolio holds at least min_diversification assets.
C28_ReturnedHoldsMinDiversification ==
    outcome.status = "returned" =>
        outcome.total_assets >= cons.min_diversification

\* the positions of the solved weights that exceed 0.001, in symbol order
RECURSIVE ExceedingFrom(_)
ExceedingFrom(i) ==
    IF i > Len(alWeights) THEN << >>
    ELSE IF 1000 * alWeights[i] > AllocUnit
         THEN <<i>> \o ExceedingFrom(i + 1)
         ELSE ExceedingFrom(i + 1)

\* what C24 states apart from the size of a reported weight: the allocation
\* holds exactly the symbols whose solved weight exceeds 0.001, each under the
\* rounding of its own weight, total_assets counts the entries, and the
\* solved weights, the dropped ones included, sum to 1
AllocationAsStated ==
    LET kept == ExceedingFrom(1)
    IN /\ Len(alAllocation) = Len(kept)
       /\ \A k \in 1..Len(kept) :
             /\ alAllocation[k].symbol = AllocSymbols[kept[k]]
             /\ alAllocation[k].weight \in Round4Choices(alWeights[kept[k]], AllocUnit)
       /\ alTotal = Len(alAllocation)
       /\ SumInt(alWeights, 1, Len(alWeights)) = AllocUnit

\* C24 as stated: the reported allocation contains exactly the symbols whose
\* solved weight exceeds 0.001, every reported weight is itself > 0.001,
\* total_assets equals the number of reported entries, and the dropped weights
\* were part of the sum-to-1 constraint.
C24_ReportedWeightsAboveThreshold ==
    alPc = "done" =>
        /\ AllocationAsStated
        /\ \A k \in 1..Len(alAllocation) : alAllocation[k].weight > 10

\* C24 amended: every reported weight is the solved weight rounded to four
\* decimal places, hence at least 0.001; the rest as stated.
C24_ReportedWeightsAtLeastThreshold ==
    alPc = "done" =>
        /\ AllocationAsStated
        /\ \A k \in 1..Len(alAllocation) : alAllocation[k].weight >= 10

\* a result with one weight dropped although positive, and one weight above
\* 0.001 reported as exactly 0.001
C24_Witness ==
    /\ alPc = "done"
    /\ alWeights[1] = 50
    /\ alWeights[2] = 103
    /\ alTotal = 2
    /\ alAllocation[1] = [symbol |-> "VTSAX", weight |-> 10]

\* the debt of the given name, as passed in and as it stands now
DebtPassedIn(name) == debts[CHOOSE i \in 1..Len(debts) : debts[i].name = name]
DebtNow(name) ==
    LET all == remaining_debts \o settled
    IN all[CHOOSE i \in 1..Len(all) : all[i].name = name]

\* the position of the logged month's priority debt in the list l
PriorityIn(l) == CHOOSE i \in 1..Len(l) : l[i].name = extraLog.priority

\* C26 as stated: in every simulated month the extra payment goes to the
\* remaining debt with the highest rate under 'avalanche', and to the
\* remaining debt with the lowest current balance under 'snowball' (lowest at
\* the start of the month, or lowest among the debts still owed when the extra
\* payment is made).
C26_ExtraToHighestRateOrLowestCurrentBalance ==
    (extraLog.month > 0 /\ extra_payment > 0) =>
        LET start == extraLog.at_start
            after == extraLog.after_minimum
            p == PriorityIn(start)
        IN IF strategy = "avalanche"
              THEN \A i \in 1..Len(start) : start[p].rate >= start[i].rate
              ELSE \/ \A i \in 1..Len(start) : start[p].balance <= start[i].balance
                   \/ \A i \in 1..Len(after) :
                         after[i].balance > 0 => after[p].balance <= after[i].balance

\* C26 amended: in every simulated month with a positive extra payment, the
\* extra payment goes to the first of the remaining debts in the order fixed
\* before the first month: the remaining debt with the highest rate under
\* 'avalanche', the remaining debt with the lowest initial balance under
\* 'snowball'. It gets min(extra_payment, its balance after its minimum
\* payment); no other debt gets any of it.
C26_ExtraToFirstInInitialOrder ==
    (extraLog.month > 0 /\ extra_payment > 0) =>
        LET start == extraLog.at_start
            after == extraLog.after_minimum
            p == PriorityIn(start)
        IN /\ IF strategy = "avalanche"
                 THEN \A i \in 1..Len(start) : start[p].rate >= start[i].rate
                 ELSE \A i \in 1..Len(start) :
                         DebtPassedIn(start[p].name).balance
                            <= DebtPassedIn(start[i].name).balance
           /\ extraLog.payment = Min(extra_payment, after[p].balance)
           /\ \A i \in 1..Len(start) :
                 DebtNow(start[i].name).balance =
                    IF i = p THEN after[i].balance - extraLog.payment
                    ELSE after[i].balance

\* a snowball month in which the extra payment went to a debt that had neither
\* the lowest balance at the start of the month nor the lowest when it was paid
C26_Witness ==
    /\ strategy = "snowball"
    /\ extraLog.month = 2
    /\ extraLog.payment > 0
    /\ extraLog.priority = "card"
    /\ \E i \in 1..Len(extraLog.at_start) :
          /\ extraLog.at_start[i].balance < extraLog.at_start[1].balance
          /\ extraLog.after_minimum[i].balance > 0
          /\ extraLog.after_minimum[i].balance < extraLog.after_minimum[1].balance

\* C30: calculate_debt_payoff terminates for every list of debts and every
\* payment input after at most 601 simulated months, no debt balance is ever
\* negative during the run, and when it ends before the 600-month safety break
\* every debt balance is 0.
C30_TerminatesWithin601MonthsAllPaid ==
    /\ [](/\ month <= 601
          /\ \A i \in 1..Len(remaining_debts) : remaining_debts[i].balance >= 0
          /\ \A i \in 1..Len(settled) : settled[i].balance >= 0
          /\ (dPc \in {"return", "done"} /\ month <= 600) =>
                /\ remaining_debts = << >>
                /\ \A i \in 1..Len(debts) : DebtNow(debts[i].name).balance = 0)
    /\ <>(dPc = "done")

\* a run that paid one debt off and was ended by the safety break in month 601
\* with the other debt still owed
C30_Witness ==
    /\ dPc = "done"
    /\ payoff.months_to_payoff = 601
    /\ Len(settled) = 1
    /\ Len(remaining_debts) = 1
    /\ remaining_debts[1].balance > 0

\* C29: for a request to /api/financial-plan whose user profile has
\* sharia_compliant = true, every allocation entry in the response is a
\* Sharia-compliant instrument, whether the portfolio comes from the optimizer
\* or from the fallback.
C29_ShariaProfileGetsCompliantAllocations ==
    (planPc = "done" /\ user_profile.sharia_compliant) =>
        \A k \in 1..Len(response.allocations) :
            response.allocations[k].sharia_compliant

InitDB == DbInit /\ OptParked /\ RetParked /\ McParked /\ PxParked /\ TgParked /\ ValParked /\ MtParked /\ AlParked /\ DebtParked /\ PlanParked
SpecDB == InitDB /\ [][DbNext]_vars

InitAssets == DbInit /\ OptParked /\ RetParked /\ McParked /\ PxParked /\ TgParked /\ ValParked /\ MtParked /\ AlParked /\ DebtParked /\ PlanParked
SpecAssets == InitAssets /\ [][AssetsNext]_vars

InitOpt == OptInit /\ DbParked /\ RetParked /\ McParked /\ PxParked /\ TgParked /\ ValParked /\ MtParked /\ AlParked /\ DebtParked /\ PlanParked
SpecOpt == InitOpt /\ [][OptNext]_vars

InitRet == RetInit /\ DbParked /\ OptParked /\ McParked /\ PxParked /\ TgParked /\ ValParked /\ MtParked /\ AlParked /\ DebtParked /\ PlanParked
SpecRet == InitRet /\ [][RetNext]_vars

InitMC == McInit /\ DbParked /\ OptParked /\ RetParked /\ PxParked /\ TgParked /\ ValParked /\ MtParked /\ AlParked /\ DebtParked /\ PlanParked
SpecMC == InitMC /\ [][McNext]_vars

InitMCReturn == McLoopDone /\ DbParked /\ OptParked /\ RetParked /\ PxParked /\ TgParked /\ ValParked /\ MtParked /\ AlParked /\ DebtParked /\ PlanParked
SpecMCReturn == InitMCReturn /\ [][McReturnNext]_vars

InitPx == PxInit /\ DbParked /\ OptParked /\ RetParked /\ McParked /\ TgParked /\ ValParked /\ MtParked /\ AlParked /\ DebtParked /\ PlanParked
SpecPx == InitPx /\ [][PxNext]_vars

InitTg == TgInit /\ DbParked /\ OptParked /\ RetParked /\ McParked /\ PxParked /\ ValParked /\ MtParked /\ AlParked /\ DebtParked /\ PlanParked
SpecTg == InitTg /\ [][TgNext]_vars

InitVal == ValInit /\ DbParked /\ OptParked /\ RetParked /\ McParked /\ PxParked /\ TgParked /\ MtParked /\ AlParked /\ DebtParked /\ PlanParked
SpecVal == InitVal /\ [][ValNext]_vars

InitMt == MtInit /\ DbParked /\ OptParked /\ RetParked /\ McParked /\ PxParked /\ TgParked /\ ValParked /\ AlParked /\ DebtParked /\ PlanParked
SpecMt == InitMt /\ [][MtNext]_vars

InitAl == AlInit /\ DbParked /\ OptParked /\ RetParked /\ McParked /\ PxParked /\ TgParked /\ ValParked /\ MtParked /\ DebtParked /\ PlanParked
SpecAl == InitAl /\ [][AlNext]_vars

InitDebt == DebtInit /\ DbParked /\ OptParked /\ RetParked /\ McParked /\ PxParked /\ TgParked /\ ValParked /\ MtParked /\ AlParked /\ PlanParked
SpecDebt == InitDebt /\ [][DebtNext]_vars

\* the function runs on its caller's thread until it returns: every enabled
\* step is taken
SpecDebtRun == InitDebt /\ [][DebtNext]_vars /\ WF_vars(DebtNext)

InitPlan == PlanInit /\ DbParked /\ OptParked /\ RetParked /\ McParked /\ PxParked /\ TgParked /\ ValParked /\ MtParked /\ AlParked /\ DebtParked
SpecPlan == InitPlan /\ [][PlanNext]_vars

====
